---- MODULE Spec2Model ----
(***************************************************************************)
(* A model of the IPLD resolver of js-ipld: the format registry with its   *)
(* dynamic loader, the path resolver, the lazy get / put / remove          *)
(* iterators and the tree stream, over an abstract block service and       *)
(* abstract format plugins.                                                *)
(*                                                                         *)
(* Strings that the code takes apart (paths) are sequences of one-char     *)
(* strings; strings it only passes around (codec names, scalars) are TLA+  *)
(* strings.                                                                *)
(***************************************************************************)
EXTENDS Integers, Sequences, FiniteSets, TLC

VARIABLES
  resolvers,   \* this.resolvers: codec id -> registry entry (NoEntry when absent)
  loadFormat,  \* the constructor's loadFormat option: "default" or "custom"
  store,       \* the blocks held by the block service (this.bs)
  it,          \* the closure of the iterator the consumer currently holds
  pull,        \* the pull of that iterator that is in flight and runs next
  other,       \* a second pull of that iterator in flight, waiting for its turn
  parked,      \* the other iterator the consumer holds: its closure, its pull
               \* in flight and what its pulls settled with
  out,         \* what the pulls of that iterator settled with, in pull order
  loads,       \* per codec, since its last removeFormat: the loader's invocations
               \* (calls) and those that returned a format (ok)
  putLog,      \* per CID written or deleted: <<cid, node>> when the last of these
               \* was a put of node, <<cid, 0>> when it was a remove
  lastCall     \* the last addFormat or removeFormat call and its outcome; tick
               \* flips with every such call

vars ==
  <<resolvers, loadFormat, store, it, pull, other, parked, out, loads, putLog,
    lastCall>>

-----------------------------------------------------------------------------
(* Bounds of the model *)

\* pulls a consumer issues on one iterator
MaxPulls == 4
\* loader invocations counted per codec between two removeFormat calls
MaxLoads == 2
\* the reads of a recursive treeStream: the traversals below yield 7 paths
MaxReads == 8

-----------------------------------------------------------------------------
(* Identifier model: codec names, multicodec codes and the codec ids that  *)
(* key the registry                                                        *)

Names == {"base1", "dag-cbor", "eth-block"}

\* the multicodec table: name -> code
MulticodecTable ==
  [n \in Names |-> CASE n = "base1" -> 1
                     [] n = "dag-cbor" -> 113
                     [] n = "eth-block" -> 144]

UndefinedCodec == 0 - 1
UndefinedName == "undefined"

\* multicodec.getCodeVarint(name): the code as an unsigned LEB128 varint
RECURSIVE varintEncode(_)
varintEncode(n) ==
  IF n < 128 THEN <<n>> ELSE <<128 + (n % 128)>> \o varintEncode(n \div 128)

\* varint.decode(bytes); UndefinedCodec when the bytes end inside a varint
RECURSIVE varintDecode(_)
varintDecode(b) ==
  IF b = <<>> THEN UndefinedCodec
  ELSE IF b[1] < 128 THEN b[1]
  ELSE LET rest == varintDecode(Tail(b))
       IN IF rest = UndefinedCodec THEN UndefinedCodec
          ELSE (b[1] - 128) + 128 * rest

\* Buffer.from(codec.toString(16) padded to an even length, 'hex')
RECURSIVE hexBytes(_)
hexBytes(n) ==
  IF n < 256 THEN <<n>> ELSE hexBytes(n \div 256) \o <<n % 256>>

\* multicodec.getCodec(buffer): the name of the varint the buffer starts with;
\* UndefinedName when the buffer holds no code of the table
getCodec(b) ==
  LET code == varintDecode(b)
  IN IF \E n \in Names : MulticodecTable[n] = code
     THEN CHOOSE n \in Names : MulticodecTable[n] = code
     ELSE UndefinedName

_codecFromName(name) ==
  LET codecBuffer == varintEncode(MulticodecTable[name])
  IN CASE Len(codecBuffer) = 1 -> codecBuffer[1]
       [] Len(codecBuffer) = 2 -> codecBuffer[1] * 256 + codecBuffer[2]
       [] OTHER -> UndefinedCodec

_codecName(codec) == getCodec(hexBytes(codec))

\* the characters of a codec name
NameChars(name) ==
  CASE name = "base1" -> <<"b", "a", "s", "e", "1">>
    [] name = "dag-cbor" -> <<"d", "a", "g", "-", "c", "b", "o", "r">>
    [] name = "eth-block" -> <<"e", "t", "h", "-", "b", "l", "o", "c", "k">>

HexDigits ==
  <<"0", "1", "2", "3", "4", "5", "6", "7", "8", "9", "a", "b", "c", "d", "e", "f">>
IsHexDigit(ch) == \E i \in 1..Len(HexDigits) : HexDigits[i] = ch
HexValue(ch) == (CHOOSE i \in 1..Len(HexDigits) : HexDigits[i] = ch) - 1

\* Buffer.from(hexString, 'hex'): the bytes of the pairs of hex digits up to the
\* first pair that is none
RECURSIVE hexDecode(_)
hexDecode(cs) ==
  IF Len(cs) < 2 \/ ~IsHexDigit(cs[1]) \/ ~IsHexDigit(cs[2]) THEN <<>>
  ELSE <<HexValue(cs[1]) * 16 + HexValue(cs[2])>> \o hexDecode(SubSeq(cs, 3, Len(cs)))

\* _codecName handed a codec name in the place of a codec id, as addFormat
\* does for its error: toString(16) of a string is the string itself
_codecNameOfString(name) ==
  LET hexString == NameChars(name)
  IN getCodec(hexDecode(IF Len(hexString) % 2 = 1
                        THEN <<"0">> \o hexString ELSE hexString))

\* the codec ids that key the registry
Codecs == {_codecFromName(n) : n \in Names}

-----------------------------------------------------------------------------
(* Errors, CIDs, values, nodes and blocks                                  *)

NoErr == [type |-> "none", codec |-> ""]
Error(t) == [type |-> t, codec |-> ""]
\* new Error(`No resolver found for codec "${codecName}"`)
NoResolverError(codecName) == [type |-> "NoResolver", codec |-> codecName]
\* new Error(`Resolver already exists for codec "${codecName}"`)
AlreadyExistsError(codecName) == [type |-> "AlreadyExists", codec |-> codecName]

Path == Seq({"d", "o", "t", "z", "/"})

NoCID == [version |-> 0, codec |-> "", hashAlg |-> "", digest |-> 0]
\* the CID of object i serialized by format fmt
CidOf(i, fmt, hashAlg, version) ==
  [version |-> version, codec |-> fmt, hashAlg |-> hashAlg, digest |-> i]

DefaultHashAlg == "sha2-256"
Cbor(i) == CidOf(i, "dag-cbor", DefaultHashAlg, 1)

\* values a plugin hands out
NullValue == [t |-> "null", s |-> "", c |-> NoCID, o |-> 0]
StrValue(s) == [t |-> "str", s |-> s, c |-> NoCID, o |-> 0]
CidValue(c) == [t |-> "cid", s |-> "", c |-> c, o |-> 0]
NumValue == [t |-> "num", s |-> "", c |-> NoCID, o |-> 0]
\* a Buffer, by its bytes
BytesValue(s) == [t |-> "bytes", s |-> s, c |-> NoCID, o |-> 0]
\* the legacy link object {"/": <cid>}
LegacyLink(c) == [t |-> "legacy", s |-> "", c |-> c, o |-> 0]
\* a structure: object o of the table below
ObjValue(o) == [t |-> "obj", s |-> "", c |-> NoCID, o |-> o]

\* The objects of the model.  1..3 are the nodes of the test fixtures
\* (node1 = {someData}, node2 = {someData, one -> node1},
\*  node3 = {someData, one -> node1, two -> node2}); 4 holds a legacy link and
\* an inline structure (5); 6 holds a structure with a link below it; 7 holds
\* a value of every shape that is no link.
Objs ==
  <<  [k \in {<<"d">>} |-> StrValue("I am 1")],
      [k \in {<<"d">>, <<"o">>} |->
          IF k = <<"d">> THEN StrValue("I am 2") ELSE CidValue(Cbor(1))],
      [k \in {<<"d">>, <<"o">>, <<"t">>} |->
          CASE k = <<"d">> -> StrValue("I am 3")
            [] k = <<"o">> -> CidValue(Cbor(1))
            [] k = <<"t">> -> CidValue(Cbor(2))],
      [k \in {<<"o">>, <<"t">>} |->
          IF k = <<"o">> THEN LegacyLink(Cbor(2)) ELSE ObjValue(5)],
      [k \in {<<"d">>, <<"o">>} |->
          IF k = <<"d">> THEN StrValue("deep") ELSE CidValue(Cbor(1))],
      [k \in {<<"d">>, <<"t">>, <<"t", "o">>} |->
          CASE k = <<"d">> -> StrValue("I am 6")
            [] k = <<"t">> -> ObjValue(5)
            [] k = <<"t", "o">> -> CidValue(Cbor(1))],
      [k \in {<<"n">>, <<"u">>, <<"e">>, <<"c">>, <<"b">>, <<"s">>} |->
          CASE k = <<"n">> -> NullValue
            [] k = <<"u">> -> NumValue
            [] k = <<"e">> -> StrValue("")
            [] k = <<"c">> -> StrValue("a")
            [] k = <<"b">> -> BytesValue("a")
            [] k = <<"s">> -> ObjValue(5)]
  >>

\* the nodes callers put and get: the top-level objects
Nodes == {1, 2, 3, 4}

\* a block: the CID and the bytes, i.e. object obj in the serialization fmt
Block(cid, fmt, obj) == [cid |-> cid, fmt |-> fmt, obj |-> obj]
NoBlock == [cid |-> NoCID, fmt |-> "", obj |-> 0]
BlockOf(i, fmt) == Block(CidOf(i, fmt, DefaultHashAlg, 1), fmt, i)

-----------------------------------------------------------------------------
(* Format plugins (the consumed contract), by format name                  *)

PluginResult(err, value, remainderPath) ==
  [err |-> err, value |-> value, remainderPath |-> remainderPath]

\* path.split('/')
RECURSIVE split(_)
split(p) ==
  IF \A i \in 1..Len(p) : p[i] # "/" THEN <<p>>
  ELSE LET i == CHOOSE j \in 1..Len(p) :
                  p[j] = "/" /\ \A k \in 1..(j - 1) : p[k] # "/"
       IN <<SubSeq(p, 1, i - 1)>> \o split(SubSeq(p, i + 1, Len(p)))

\* parts.join('/')
RECURSIVE join(_)
join(parts) ==
  IF parts = <<>> THEN <<>>
  ELSE IF Len(parts) = 1 THEN parts[1]
  ELSE parts[1] \o <<"/">> \o join(Tail(parts))

\* util.deserialize(bytes) of the plugin of format fmt: the object, 0 on bytes of
\* another serialization
pluginDeserialize(fmt, block) == IF block.fmt = fmt THEN block.obj ELSE 0

\* util.serialize(node) of the plugin of format fmt
pluginSerialize(fmt, node, cid) == Block(cid, fmt, node)

\* util.cid(node, options) of the plugin of format fmt
pluginCid(fmt, node, options) ==
  CidOf(node, fmt,
        IF options.hashAlg = "" THEN DefaultHashAlg ELSE options.hashAlg,
        options.version)

\* walk the parts inside object o: stop at the first link, fail on a missing key
RECURSIVE traverse(_, _)
traverse(o, parts) ==
  LET k == Head(parts)
  IN IF k \notin DOMAIN Objs[o]
     THEN PluginResult(Error("PathNotAvailable"), NullValue, <<>>)
     ELSE LET v == Objs[o][k]
          IN IF v.t \in {"cid", "legacy"}
             THEN PluginResult(NoErr, v, join(Tail(parts)))
             ELSE IF Len(parts) = 1 THEN PluginResult(NoErr, v, <<>>)
             ELSE IF v.t = "obj" THEN traverse(v.o, Tail(parts))
             ELSE PluginResult(Error("PathNotAvailable"), NullValue, <<>>)

\* resolver.resolve(bytes, path) of the plugin of format fmt
pluginResolve(fmt, block, path) ==
  LET o == pluginDeserialize(fmt, block)
  IN IF o = 0 THEN PluginResult(Error("Deserialize"), NullValue, <<>>)
     ELSE IF path = <<>> \/ path = <<"/">>
     THEN PluginResult(NoErr, ObjValue(o), <<>>)
     ELSE traverse(o, split(IF path[1] = "/" THEN Tail(path) ELSE path))

-----------------------------------------------------------------------------
(* The block service (the consumed contract)                               *)

bsHas(cid) == \E b \in store : b.cid = cid
bsGet(cid) == IF bsHas(cid) THEN CHOOSE b \in store : b.cid = cid ELSE NoBlock
\* bs.put(block): the block replaces what the store held under its CID
bsPut(block) == {b \in store : b.cid # block.cid} \cup {block}
\* a delete that reports success and deletes nothing
bsDeleteNothing(cid) == store

bsDelete(cid) == {b \in store : b.cid # cid}
\* bs.getMany(cids): every block in the order asked, or nothing at all
RECURSIVE bsGetManyBlocks(_)
bsGetManyBlocks(cids) ==
  IF cids = <<>> THEN <<>>
  ELSE <<bsGet(Head(cids))>> \o bsGetManyBlocks(Tail(cids))
\* a batched read that fails only when the first block is absent
bsGetManyOkFirst(cids) == bsHas(cids[1])

bsGetManyOk(cids) == \A i \in 1..Len(cids) : bsHas(cids[i])

-----------------------------------------------------------------------------
(* The format registry                                                     *)

NoEntry == [name |-> "", origin |-> "none"]
Entry(name, origin) == [name |-> name, origin |-> origin]

\* what the custom loader of the model can load
Loadable == {_codecFromName("dag-cbor"), _codecFromName("eth-block")}

LoadResult(err, format) == [err |-> err, format |-> format]

\* this.loadFormat(codec): the default loader always throws; the custom one
\* returns the format of a loadable codec and throws its own error otherwise
loadFormatResult(codec) ==
  IF loadFormat = "default"
  THEN LoadResult(NoResolverError(_codecName(codec)), NoEntry)
  ELSE IF codec \in Loadable
  THEN LoadResult(NoErr, Entry(_codecName(codec), "load"))
  ELSE LoadResult(Error("Loader"), NoEntry)

\* addFormat(format): throws when the codec has an entry, inserts otherwise
addFormatThrows(name) == resolvers[_codecFromName(name)] # NoEntry

\* addFormat that overwrites an existing entry
addFormatResolversOverwrite(name) ==
  [resolvers EXCEPT ![_codecFromName(name)] = Entry(name, "add")]

addFormatResolvers(name) ==
  IF addFormatThrows(name) THEN resolvers
  ELSE [resolvers EXCEPT ![_codecFromName(name)] = Entry(name, "add")]

addFormat(name) ==
  /\ resolvers' = addFormatResolvers(name)
  /\ lastCall' = [op |-> "addFormat", codec |-> _codecFromName(name),
                  err |-> IF addFormatThrows(name)
                          THEN AlreadyExistsError(_codecNameOfString(name))
                          ELSE NoErr,
                  tick |-> ~lastCall.tick]
  /\ UNCHANGED <<other, parked, loadFormat, store, it, pull, out, loads, putLog>>

NoLoads == [calls |-> 0, ok |-> 0]

\* removeFormat that empties the registry
removeFormatResolversAll(codec) ==
  IF resolvers[codec] # NoEntry
  THEN [c \in Codecs |-> NoEntry]
  ELSE resolvers

removeFormatResolvers(codec) ==
  IF resolvers[codec] # NoEntry
  THEN [resolvers EXCEPT ![codec] = NoEntry]
  ELSE resolvers

removeFormat(codec) ==
  /\ resolvers' = removeFormatResolvers(codec)
  /\ lastCall' = [op |-> "removeFormat", codec |-> codec, err |-> NoErr,
                  tick |-> ~lastCall.tick]
  /\ loads' = [loads EXCEPT ![codec] = NoLoads]
  /\ UNCHANGED <<other, parked, loadFormat, store, it, pull, out, putLog>>

-----------------------------------------------------------------------------
(* Iterators: the closure, the pull in flight and the settled outcomes     *)

\* put's options: the fields the caller (or the defaults) set are in `given`
Options(format, hashAlg, version, onlyHash, given) ==
  [format |-> format, hashAlg |-> hashAlg, version |-> version,
   onlyHash |-> onlyHash, given |-> given]
NoOptions == Options(UndefinedCodec, "", 0, FALSE, {})

\* a merge in which the defaults win over what the caller gave
mergeOptionsDefaultsWin(d, u) ==
  Options(u.format,
          IF "hashAlg" \in d.given THEN d.hashAlg ELSE u.hashAlg,
          IF "version" \in d.given THEN d.version ELSE u.version,
          IF "onlyHash" \in d.given THEN d.onlyHash ELSE u.onlyHash,
          d.given \cup u.given)

\* mergeOptions(defaultOptions, userOptions)
mergeOptions(d, u) ==
  Options(u.format,
          IF "hashAlg" \in u.given THEN u.hashAlg ELSE d.hashAlg,
          IF "version" \in u.given THEN u.version ELSE d.version,
          IF "onlyHash" \in u.given THEN u.onlyHash ELSE d.onlyHash,
          d.given \cup u.given)

\* an argument as the caller passes it: its JavaScript type and, where it has
\* one, its content
Arg(type, v) == [type |-> type, v |-> v]
\* the userOptions object: the type of its `format` field and the options
UserOptions(formatType, o) == [type |-> "object", formatType |-> formatType, v |-> o]

\* typical.isIterable(x) alone: strings and Buffers are iterable too
isIterableOnly(a) == a.type \in {"iterable", "string", "Buffer"}

\* typical.isIterable(x) && !typical.isString(x) && !Buffer.isBuffer(x)
isIterable(a) == a.type = "iterable"

\* the validation of resolve
resolveThrows(cid, path) ==
  IF cid.type # "CID" THEN Error("CidArgument")
  ELSE IF path.type # "string" THEN Error("PathArgument")
  ELSE NoErr

\* the validation of get and of remove
cidsThrows(cids) == IF ~isIterable(cids) THEN Error("CidsIterable") ELSE NoErr

\* the validation of put
putThrows(nodes, userOptions) ==
  IF ~isIterable(nodes) THEN Error("NodesIterable")
  ELSE IF userOptions.type = "undefined" THEN Error("PutRequiresOptions")
  ELSE IF userOptions.formatType = "undefined" THEN Error("FormatNotSet")
  ELSE IF userOptions.formatType # "number" THEN Error("FormatNotNumber")
  ELSE NoErr

\* a method throws: nothing but the record of the call changes
Throw(op, args, err) ==
  /\ lastCall' = [op |-> op, codec |-> UndefinedCodec, args |-> args,
                  err |-> err, tick |-> ~lastCall.tick]
  /\ UNCHANGED <<resolvers, loadFormat, store, it, pull, other, parked, out, loads, putLog>>

\* a method returns its iterator
Return(op, args) ==
  lastCall' = [op |-> op, codec |-> UndefinedCodec, args |-> args,
               err |-> NoErr, tick |-> ~lastCall.tick]

NoIt ==
  [kind |-> "none",
   cid |-> NoCID, path |-> <<>>,                       \* resolve: cid (NoCID is null), path
   cids |-> <<>>, blocks |-> <<>>, blocksDef |-> FALSE, \* get, remove: cids; get: blocks
   nodes |-> <<>>, userOptions |-> NoOptions,          \* put
   options |-> NoOptions, optionsDef |-> FALSE, format |-> NoEntry,
   argCid |-> NoCID, argPath |-> <<>>,                 \* the arguments of the call
   argCids |-> <<>>, argNodes |-> <<>>,
   reads |-> 0,                                        \* get: bs.getMany calls, resolve and
                                                       \* treeStream: bs.get calls
   recursive |-> FALSE, filter |-> <<>>,               \* treeStream: options, path
   streams |-> <<>>,                                   \* treeStream: queue of the traversal
   failure |-> NoErr, failedAt |-> 0,                  \* treeStream: the first abort of a deferred
                                                       \* source and what was handed out before it
   red |-> "none", redOut |-> 0, redFrom |-> 0]        \* the reducer called last, the results and
                                                       \* the inputs taken before its call

IdlePull ==
  [pc |-> "idle", then |-> "", codec |-> UndefinedCodec, format |-> NoEntry,
   block |-> NoBlock, node |-> 0, cid |-> NoCID,
   lookedUp |-> FALSE, readCid |-> NoCID, usedPath |-> <<>>, src |-> 0,
   err |-> NoErr]                \* the error a deferred source is aborted with

\* an outcome: what the pull settled with, and what the pull did on the way
\* (lookedUp: it called _getFormat; readCid: the CID it read from the store;
\*  usedPath: the path it handed to the plugin; src: the input element it took)
Outcome(kind, value, remainderPath, err, p) ==
  [kind |-> kind, value |-> value, remainderPath |-> remainderPath, err |-> err,
   lookedUp |-> p.lookedUp, readCid |-> p.readCid, usedPath |-> p.usedPath,
   src |-> p.src]

Done(p) == Outcome("done", NullValue, <<>>, NoErr, p)
Rejected(err, p) == Outcome("error", NullValue, <<>>, err, p)
Resolved(value, remainderPath, p) == Outcome("value", value, remainderPath, NoErr, p)

\* next() can be called when no pull is about to run; MaxPulls pulls settle at
\* most
CanPull(kind) == it.kind = kind /\ pull.pc = "idle" /\ Len(out) < MaxPulls

\* a call starts a new iterator when the one before has no pull in flight (a
\* pull that never settles is left behind)
CanCall == pull.pc \in {"idle", "hung"} /\ other.pc \in {"idle", "hung"}

\* the event loop: the pull that was about to run waits (the consumer, or the
\* callback of the waiting pull, runs first) and the waiting one takes its place
interleave ==
  /\ pull.pc \notin {"idle", "hung"} \/ other.pc \notin {"idle", "hung"}
  /\ pull' = other
  /\ other' = pull
  /\ UNCHANGED parked
  /\ UNCHANGED <<resolvers, loadFormat, store, it, out, loads, putLog, lastCall>>

Settle(o) == out' = Append(out, o) /\ pull' = IdlePull

\* the consumer turns to the other iterator it holds, or the event loop to the
\* callback of that iterator's pull
NoSequence == [kind |-> "none"]
Sequence(i, p, o) ==
  IF i.kind = "none" THEN NoSequence ELSE [kind |-> i.kind, it |-> i, pull |-> p, out |-> o]
Parked ==
  IF parked = NoSequence THEN [it |-> NoIt, pull |-> IdlePull, out |-> <<>>] ELSE parked

\* iterators that keep their state in one place for all of them
switchSharedClosure ==
  /\ other.pc = "idle"
  /\ it.kind # "none" \/ parked # NoSequence
  /\ parked' = Sequence(it, pull, out)
  /\ it' = it
  /\ pull' = Parked.pull
  /\ out' = Parked.out
  /\ UNCHANGED <<other, resolvers, loadFormat, store, loads, putLog, lastCall>>

switch ==
  /\ other.pc = "idle"
  /\ it.kind # "none" \/ parked # NoSequence
  /\ parked' = Sequence(it, pull, out)
  /\ it' = Parked.it
  /\ pull' = Parked.pull
  /\ out' = Parked.out
  /\ UNCHANGED <<other, resolvers, loadFormat, store, loads, putLog, lastCall>>

\* _getFormat that asks the loader whatever the registry holds
getFormatHitNever(codec) == FALSE

\* _getFormat(codec) up to its await: a hit returns the entry, a miss invokes
\* the loader; the caller goes on at `then`
getFormatHit(codec) == resolvers[codec] # NoEntry

getFormat(codec, then, p) ==
  IF getFormatHit(codec)
  THEN /\ pull' = [p EXCEPT !.pc = then, !.format = resolvers[codec], !.lookedUp = TRUE]
       /\ UNCHANGED loads
  ELSE /\ loads[codec].calls < MaxLoads
       /\ pull' = [p EXCEPT !.pc = "loading", !.then = then, !.codec = codec,
                            !.lookedUp = TRUE]
       /\ loads' = [loads EXCEPT ![codec].calls = @ + 1]

\* _getFormat that caches whatever the loader settled with
getFormatCacheAlways(codec, r) ==
  [resolvers EXCEPT ![codec] = Entry(_codecName(codec), "load")]

\* _getFormat that takes the entry out when the codec has got one meanwhile
getFormatCacheOnce(codec, r) ==
  IF r.err # NoErr THEN resolvers
  ELSE IF resolvers[codec] # NoEntry THEN [resolvers EXCEPT ![codec] = NoEntry]
  ELSE [resolvers EXCEPT ![codec] = r.format]

\* the registry after the loader settled with r
getFormatCache(codec, r) ==
  IF r.err = NoErr THEN [resolvers EXCEPT ![codec] = r.format] ELSE resolvers

\* _getFormat(codec) after its await: cache and return the format, or throw;
\* every caller turns the throw into the failure of its pull, the recursive
\* treeStream into the abort of the deferred source of the element
getFormatLoaded ==
  /\ pull.pc = "loading"
  /\ LET r == loadFormatResult(pull.codec)
     IN /\ resolvers' = getFormatCache(pull.codec, r)
        /\ IF r.err = NoErr
           THEN /\ pull' = [pull EXCEPT !.pc = pull.then, !.format = r.format]
                /\ out' = out
                /\ loads' = [loads EXCEPT ![pull.codec].ok = @ + 1]
           ELSE /\ IF pull.then = "traverse.bs.get"
                   THEN /\ pull' = [pull EXCEPT !.pc = "traverse.abort", !.err = r.err]
                        /\ out' = out
                   ELSE Settle(Rejected(r.err, pull))
                /\ UNCHANGED loads
  /\ UNCHANGED <<other, parked, loadFormat, store, it, putLog, lastCall>>

-----------------------------------------------------------------------------
(* resolve(cid, path)                                                      *)

\* the iterator the call returns
resolveIterator(cid, path) ==
  /\ CanCall
  /\ it' = [NoIt EXCEPT !.kind = "resolve", !.cid = cid, !.path = path,
                        !.argCid = cid, !.argPath = path]
  /\ pull' = IdlePull
  /\ out' = <<>>
  /\ other' = IdlePull
  /\ UNCHANGED parked
  /\ UNCHANGED <<resolvers, loadFormat, store, loads, putLog>>

\* resolve with arguments that pass the validation
resolveCall(cid, path) == resolveIterator(cid, path) /\ UNCHANGED lastCall

\* the method: validation, then the iterator
resolve(cid, path) ==
  LET err == resolveThrows(cid, path) IN
  IF err # NoErr THEN Throw("resolve", <<cid, path>>, err)
  ELSE resolveIterator(cid.v, path.v) /\ Return("resolve", <<cid, path>>)

\* next(): end of the iteration when there is no CID to follow, else _getFormat
resolveNext ==
  /\ CanPull("resolve")
  /\ IF it.cid = NoCID
     THEN Settle(Done(IdlePull)) /\ UNCHANGED loads
     ELSE /\ getFormat(_codecFromName(it.cid.codec), "bs.get", IdlePull)
          /\ out' = out
  /\ UNCHANGED <<other, parked, resolvers, loadFormat, store, it, putLog, lastCall>>

\* this.bs.get(cid, ...) and its callback
resolveGet ==
  /\ it.kind = "resolve" /\ pull.pc = "bs.get"
  /\ IF bsHas(it.cid)
     THEN /\ pull' = [pull EXCEPT !.pc = "resolve", !.block = bsGet(it.cid),
                                  !.readCid = it.cid]
          /\ out' = out
     ELSE Settle(Rejected(Error("NotFound"), [pull EXCEPT !.readCid = it.cid]))
  /\ it' = [it EXCEPT !.reads = @ + 1]
  /\ UNCHANGED <<other, parked, resolvers, loadFormat, store, loads, putLog, lastCall>>

\* Object.keys(value).length === 1 && '/' in value throws a TypeError on null
\* and on a string of one character
legacyCheckThrows(value) ==
  value.t = "null" \/ (value.t = "str" /\ Len(value.s) = 1)

\* a resolve that takes old style links as they are
normalizeNothing(value) == value

\* old style links become CIDs
normalizeLink(value) ==
  IF value.t = "legacy" THEN CidValue(value.c) ELSE value

\* a resolve that keeps the CID it has just read as the one to follow
nextCidStale(value) == IF value.t = "cid" THEN it.cid ELSE NoCID

\* a resolve that never follows a link
nextCidNoFollow(value) == NoCID

\* a resolve that follows the CID it has when the value is no CID
nextCidKeep(value) == IF value.t = "cid" THEN value.c ELSE it.cid

\* the CID to follow next: the value when it is a CID, null otherwise
nextCid(value) == IF value.t = "cid" THEN value.c ELSE NoCID

\* a resolve that does not update its path
nextPathStale(result) == it.path

\* the path for the next iteration
nextPath(result) == result.remainderPath

\* format.resolver.resolve(block.data, path, ...) and its callback
resolveResolve ==
  /\ it.kind = "resolve" /\ pull.pc = "resolve"
  /\ LET result == pluginResolve(pull.format.name, pull.block, it.path)
         p == [pull EXCEPT !.usedPath = it.path]
     IN IF result.err # NoErr
        THEN Settle(Rejected(result.err, p)) /\ it' = it
        ELSE IF legacyCheckThrows(result.value)
        THEN /\ it' = [it EXCEPT !.path = nextPath(result)]
             /\ pull' = [p EXCEPT !.pc = "hung"]
             /\ out' = out
        ELSE LET value == normalizeLink(result.value)
             IN /\ it' = [it EXCEPT !.path = nextPath(result), !.cid = nextCid(value)]
                /\ Settle(Resolved(value, nextPath(result), p))
  /\ UNCHANGED <<other, parked, resolvers, loadFormat, store, loads, putLog, lastCall>>

-----------------------------------------------------------------------------
(* get(cids)                                                               *)

\* the iterator the call returns
getIterator(cids) ==
  /\ CanCall
  /\ it' = [NoIt EXCEPT !.kind = "get", !.cids = cids, !.argCids = cids]
  /\ pull' = IdlePull
  /\ out' = <<>>
  /\ other' = IdlePull
  /\ UNCHANGED parked
  /\ UNCHANGED <<resolvers, loadFormat, store, loads, putLog>>

\* get with an argument that passes the validation
getCall(cids) == getIterator(cids) /\ UNCHANGED lastCall

\* the method: validation, then the iterator
get(cids) ==
  LET err == cidsThrows(cids) IN
  IF err # NoErr THEN Throw("get", <<cids>>, err)
  ELSE getIterator(cids.v) /\ Return("get", <<cids>>)

\* array.pop() in the place of array.shift()
popElement(array) == array[Len(array)]

\* array.shift(): the element taken and the elements left
shiftElement(array) == Head(array)
shiftNothing(array) == array
shiftRest(array) == Tail(array)

\* the input element a get or put or remove pull takes: its place in the call's input
srcIndex(total, left) == Len(total) - Len(left) + 1

\* next(): end of the iteration when no blocks are left; the first pull issues
\* bs.getMany, a later one shifts the next block and deserializes it
getNext ==
  /\ CanPull("get")
  /\ IF Len(it.cids) = 0 \/ (it.blocksDef /\ Len(it.blocks) = 0)
     THEN Settle(Done(IdlePull)) /\ it' = it /\ UNCHANGED loads
     ELSE IF ~it.blocksDef
     THEN /\ pull' = [IdlePull EXCEPT !.pc = "bs.getMany"]
          /\ it' = [it EXCEPT !.reads = @ + 1]
          /\ out' = out /\ UNCHANGED loads
     ELSE LET block == shiftElement(it.blocks)
          IN /\ it' = [it EXCEPT !.blocks = shiftRest(it.blocks)]
             /\ getFormat(_codecFromName(block.cid.codec), "deserialize",
                          [IdlePull EXCEPT !.block = block,
                                           !.src = srcIndex(it.cids, it.blocks)])
             /\ out' = out
  /\ UNCHANGED <<other, parked, resolvers, loadFormat, store, putLog, lastCall>>

\* the callback of this.bs.getMany(cidsArray, ...)
getMany ==
  /\ it.kind = "get" /\ pull.pc = "bs.getMany"
  /\ IF ~bsGetManyOk(it.cids)
     THEN Settle(Rejected(Error("NotFound"), pull)) /\ it' = it /\ UNCHANGED loads
     ELSE LET blocks == bsGetManyBlocks(it.cids)
          IN /\ it' = [it EXCEPT !.blocks = shiftRest(blocks), !.blocksDef = TRUE]
             /\ getFormat(_codecFromName(shiftElement(blocks).cid.codec), "deserialize",
                          [pull EXCEPT !.block = shiftElement(blocks),
                                       !.src = srcIndex(it.cids, blocks)])
             /\ out' = out
  /\ UNCHANGED <<other, parked, resolvers, loadFormat, store, putLog, lastCall>>

\* _deserialize(block) after _getFormat: format.util.deserialize(block.data, ...)
getDeserialize ==
  /\ it.kind = "get" /\ pull.pc = "deserialize"
  /\ LET node == pluginDeserialize(pull.format.name, pull.block)
     IN IF node = 0
        THEN Settle(Rejected(Error("Deserialize"), pull))
        ELSE Settle(Resolved(ObjValue(node), <<>>, pull))
  /\ UNCHANGED <<other, parked, resolvers, loadFormat, store, it, loads, putLog, lastCall>>

-----------------------------------------------------------------------------
(* put(nodes, userOptions)                                                 *)

\* the iterator the call returns
putIterator(nodes, userOptions) ==
  /\ CanCall
  /\ it' = [NoIt EXCEPT !.kind = "put", !.nodes = nodes, !.argNodes = nodes,
                        !.userOptions = userOptions]
  /\ pull' = IdlePull
  /\ out' = <<>>
  /\ other' = IdlePull
  /\ UNCHANGED parked
  /\ UNCHANGED <<resolvers, loadFormat, store, loads, putLog>>

\* put with arguments that pass the validation
putCall(nodes, userOptions) ==
  putIterator(nodes, userOptions) /\ UNCHANGED lastCall

\* the method: validation, then the iterator
put(nodes, userOptions) ==
  LET err == putThrows(nodes, userOptions) IN
  IF err # NoErr THEN Throw("put", <<nodes, userOptions>>, err)
  ELSE putIterator(nodes.v, userOptions.v) /\ Return("put", <<nodes, userOptions>>)

\* next(): end of the iteration when no nodes are left; the first pull looks the
\* format up to resolve the options
putNext ==
  /\ CanPull("put")
  /\ IF Len(it.nodes) = 0
     THEN Settle(Done(IdlePull)) /\ UNCHANGED loads
     ELSE IF ~it.optionsDef
     THEN getFormat(it.userOptions.format, "options", IdlePull) /\ out' = out
     ELSE pull' = [IdlePull EXCEPT !.pc = "util.cid"] /\ out' = out /\ UNCHANGED loads
  /\ UNCHANGED <<other, parked, resolvers, loadFormat, store, it, putLog, lastCall>>

\* defaults with CID version 0
defaultOptionsV0(format) ==
  Options(UndefinedCodec, "", 0, FALSE, {"version", "onlyHash"})

\* the defaults of put's options: format.defaultHashAlg, version 1, onlyHash
\* false. The registry entry {resolver, util} has no defaultHashAlg: the field is
\* undefined, and util.cid of the plugin then takes the plugin's default
defaultOptions(format) ==
  Options(UndefinedCodec, "", 1, FALSE, {"version", "onlyHash"})

\* format = await this._getFormat(...); options = mergeOptions(...)
putOptions ==
  /\ it.kind = "put" /\ pull.pc = "options"
  /\ it' = [it EXCEPT !.format = pull.format, !.optionsDef = TRUE,
                      !.options = mergeOptions(defaultOptions(pull.format),
                                               it.userOptions)]
  /\ pull' = [pull EXCEPT !.pc = "util.cid"]
  /\ UNCHANGED <<other, parked, resolvers, loadFormat, store, out, loads, putLog, lastCall>>

\* what format.util.cid can call back with
CidErrors == {NoErr, Error("Cid")}

\* a put that takes the node off the input when its CID has been computed
nodesAfterCidComputed(err, nodes) ==
  IF err # NoErr THEN nodes ELSE shiftRest(nodes)

\* const node = nodes.shift(), before format.util.cid is called
nodesAfterCid(err, nodes) == shiftRest(nodes)

\* nodes.shift(); format.util.cid(node, options, ...) and its callback: reject
\* on an error, else the CID is the result when onlyHash is set, else
\* this._put(cid, node, ...) starts
putCid(err) ==
  /\ it.kind = "put" /\ pull.pc = "util.cid"
  /\ LET node == shiftElement(it.nodes)
         cid == pluginCid(it.format.name, node, it.options)
         p == [pull EXCEPT !.node = node, !.cid = cid,
                           !.src = srcIndex(it.argNodes, it.nodes)]
     IN /\ it' = [it EXCEPT !.nodes = nodesAfterCid(err, it.nodes)]
        /\ IF err # NoErr
           THEN Settle(Rejected(err, [p EXCEPT !.cid = NoCID])) /\ UNCHANGED loads
           ELSE IF it.options.onlyHash
           THEN Settle(Resolved(CidValue(cid), <<>>, p)) /\ UNCHANGED loads
           ELSE getFormat(_codecFromName(cid.codec), "serialize", p) /\ out' = out
  /\ UNCHANGED <<other, parked, resolvers, loadFormat, store, putLog, lastCall>>

\* a _put that serializes with dag-cbor whatever the codec of the CID
_putBlockAsCbor(format, cid, node) == pluginSerialize("dag-cbor", node, cid)

\* the block _put writes
_putBlock(format, cid, node) == pluginSerialize(format.name, node, cid)

\* what format.util.serialize and this.bs.put can call back with
PutErrors == {NoErr, Error("Serialize"), Error("Put")}

\* a callback of _put that forgets the error
_putOutcomeIgnoringErr(err, p) == Resolved(CidValue(p.cid), <<>>, p)

\* the callback of _put in put: reject(err) or resolve(cid)
_putOutcome(err, p) ==
  IF err # NoErr THEN Rejected(err, p) ELSE Resolved(CidValue(p.cid), <<>>, p)

\* _put after _getFormat: format.util.serialize(node, ...), then
\* this.bs.put(new Block(buf, cid), ...); err is the error the first of the two
\* that fails calls back with
_put(err) ==
  /\ it.kind = "put" /\ pull.pc = "serialize"
  /\ store' = IF err = NoErr
               THEN bsPut(_putBlock(pull.format, pull.cid, pull.node))
               ELSE store
  /\ Settle(_putOutcome(err, pull))
  /\ putLog' = IF err = NoErr
                THEN {e \in putLog : e[1] # pull.cid} \cup {<<pull.cid, pull.node>>}
                ELSE putLog
  /\ UNCHANGED <<other, parked, resolvers, loadFormat, it, loads, lastCall>>

-----------------------------------------------------------------------------
(* remove(cids)                                                            *)

\* a remove that deletes when it is called
removeIteratorEager(cids) ==
  /\ CanCall
  /\ it' = [NoIt EXCEPT !.kind = "remove", !.cids = cids, !.argCids = cids]
  /\ pull' = IdlePull
  /\ out' = <<>>
  /\ other' = IdlePull
  /\ UNCHANGED parked
  /\ store' = {b \in store : \A i \in 1..Len(cids) : b.cid # cids[i]}
  /\ UNCHANGED <<resolvers, loadFormat, loads, putLog>>

\* the iterator the call returns
removeIterator(cids) ==
  /\ CanCall
  /\ it' = [NoIt EXCEPT !.kind = "remove", !.cids = cids, !.argCids = cids]
  /\ pull' = IdlePull
  /\ out' = <<>>
  /\ other' = IdlePull
  /\ UNCHANGED parked
  /\ UNCHANGED <<resolvers, loadFormat, store, loads, putLog>>

\* remove with an argument that passes the validation
removeCall(cids) == removeIterator(cids) /\ UNCHANGED lastCall

\* the method: validation, then the iterator
remove(cids) ==
  LET err == cidsThrows(cids) IN
  IF err # NoErr THEN Throw("remove", <<cids>>, err)
  ELSE removeIterator(cids.v) /\ Return("remove", <<cids>>)

\* next(): end of the iteration when no CIDs are left, else cids.shift() and
\* this.bs.delete(cid, ...)
removeNext ==
  /\ CanPull("remove")
  /\ IF Len(it.cids) = 0
     THEN Settle(Done(IdlePull)) /\ it' = it
     ELSE /\ it' = [it EXCEPT !.cids = shiftRest(it.cids)]
          /\ pull' = [IdlePull EXCEPT !.pc = "bs.delete", !.cid = shiftElement(it.cids),
                                      !.src = srcIndex(it.argCids, it.cids)]
          /\ out' = out
  /\ UNCHANGED <<other, parked, resolvers, loadFormat, store, loads, putLog, lastCall>>

\* the errors this.bs.delete can call back with
DeleteErrors == {NoErr, Error("Delete")}

\* a callback that yields the CID whatever the error
removeOutcomeIgnoringErr(err, p) == Resolved(CidValue(p.cid), <<>>, p)

\* what the callback of this.bs.delete settles the pull with
removeOutcome(err, p) ==
  IF err # NoErr THEN Rejected(err, p) ELSE Resolved(CidValue(p.cid), <<>>, p)

\* this.bs.delete(cid, ...) and its callback; a failed delete leaves the store
\* as it was
removeDelete(err) ==
  /\ it.kind = "remove" /\ pull.pc = "bs.delete"
  /\ store' = IF err = NoErr THEN bsDelete(pull.cid) ELSE store
  /\ Settle(removeOutcome(err, pull))
  /\ putLog' = IF err = NoErr
               THEN {e \in putLog : e[1] # pull.cid} \cup {<<pull.cid, 0>>}
               ELSE putLog
  /\ UNCHANGED <<other, parked, resolvers, loadFormat, it, loads, lastCall>>

-----------------------------------------------------------------------------
(* treeStream(cid, path, options)                                          *)

\* the order in which the plugins of the model enumerate keys
keyOrder == << <<"o">>, <<"t">>, <<"t", "o">>, <<"d">> >>

\* resolver.tree(bytes): the paths inside object o, structures flattened
RECURSIVE objPaths(_, _)
objPaths(o, i) ==
  IF i > Len(keyOrder) THEN <<>>
  ELSE LET k == keyOrder[i]
           below == IF k \in DOMAIN Objs[o] /\ Objs[o][k].t = "obj"
                    THEN objPaths(Objs[o][k].o, 1) ELSE <<>>
       IN (IF k \in DOMAIN Objs[o]
           THEN <<k>> \o [j \in 1..Len(below) |-> k \o <<"/">> \o below[j]]
           ELSE <<>>) \o objPaths(o, i + 1)

pluginTree(fmt, block) ==
  LET o == pluginDeserialize(fmt, block)
  IN IF o = 0 THEN <<>> ELSE objPaths(o, 1)

\* format.resolver.isLink(block.data, p): the link at path p, NoCID for false
pluginIsLink(fmt, block, path) ==
  LET r == traverse(pluginDeserialize(fmt, block), split(path))
  IN IF r.err = NoErr /\ r.remainderPath = <<>> /\ r.value.t \in {"cid", "legacy"}
     THEN r.value.c ELSE NoCID

\* an element of the traversal: {basePath, cid}, or a string when cid is NoCID;
\* layer counts the nodes above the one the path was enumerated from
El(basePath, cid, layer) == [basePath |-> basePath, cid |-> cid, layer |-> layer]
NoEl == El(<<>>, NoCID, 0)

\* a stream of the traversal's queue: pull.values(els), or the deferred source of
\* the element el
Values(els) == [deferred |-> FALSE, el |-> NoEl, els |-> els]
Deferred(el) == [deferred |-> TRUE, el |-> el, els |-> <<>>]

\* the stream of an element: pull.empty() for a string, else the deferred source
createStream(el) == IF el.cid = NoCID THEN Values(<<>>) ELSE Deferred(el)

\* pullTraverse.depthFirst: the new stream goes to the front of the queue
unshiftStream(streams, st) == <<st>> \o streams

\* pullTraverse.widthFirst: the new stream goes to the end of the queue
pushStream(streams, st) == streams \o <<st>>

\* children that carry their path inside their node and not the base path
childElementsRelative(el, fmt, block) ==
  LET paths == pluginTree(fmt, block)
  IN [j \in 1..Len(paths) |->
        El(paths[j], pluginIsLink(fmt, block, paths[j]), el.layer + 1)]

\* paths.map(...): the children of el, as {basePath, cid} for a link and as a
\* string for the rest
childElements(el, fmt, block) ==
  LET paths == pluginTree(fmt, block)
  IN [j \in 1..Len(paths) |->
        El(IF el.basePath # <<>> THEN el.basePath \o <<"/">> \o paths[j]
           ELSE paths[j],
           pluginIsLink(fmt, block, paths[j]),
           el.layer + 1)]

\* the filter by path: el.indexOf(path) === 0 ? el.slice(path.length + 1) :
\* undefined; no filter when path is undefined or empty
filterPath(el, path) ==
  IF path = <<>> THEN el
  ELSE IF Len(el) >= Len(path) /\ SubSeq(el, 1, Len(path)) = path
  THEN SubSeq(el, Len(path) + 2, Len(el))
  ELSE <<>>

\* pull.filter(Boolean) after the filter by path
RECURSIVE filterPaths(_, _)
filterPaths(els, path) ==
  IF els = <<>> THEN <<>>
  ELSE (IF filterPath(Head(els), path) # <<>>
        THEN <<filterPath(Head(els), path)>> ELSE <<>>)
       \o filterPaths(Tail(els), path)

\* treeStream(cid, path, options). Not recursive: the waterfall starts within
\* the call, with _getFormat. Recursive: the traversal starts at the first read
treeStreamCall(cid, path, recursive) ==
  /\ CanCall
  /\ it' = [NoIt EXCEPT !.kind = "tree", !.cid = cid, !.argCid = cid,
                        !.argPath = path, !.filter = path,
                        !.recursive = recursive,
                        !.streams = IF recursive
                                    THEN <<Values(<<El(<<>>, cid, 0)>>)>>
                                    ELSE <<>>]
  /\ IF recursive
     THEN pull' = IdlePull /\ UNCHANGED loads
     ELSE getFormat(_codecFromName(cid.codec), "tree.bs.get", IdlePull)
  /\ out' = <<>>
  /\ other' = IdlePull
  /\ UNCHANGED parked
  /\ UNCHANGED <<resolvers, loadFormat, store, putLog, lastCall>>

\* this.bs.get(cid, ...) of the waterfall
treeStreamGet ==
  /\ it.kind = "tree" /\ pull.pc = "tree.bs.get"
  /\ it' = [it EXCEPT !.reads = @ + 1]
  /\ IF bsHas(it.cid)
     THEN /\ pull' = [pull EXCEPT !.pc = "tree", !.block = bsGet(it.cid),
                                  !.readCid = it.cid]
          /\ out' = out
     ELSE Settle(Rejected(Error("NotFound"), [pull EXCEPT !.readCid = it.cid]))
  /\ UNCHANGED <<other, parked, resolvers, loadFormat, store, loads, putLog, lastCall>>

\* a stream that ends after its first value
pullValuesFirst(paths, p) ==
  (IF paths = <<>> THEN <<>> ELSE <<Resolved(NullValue, Head(paths), p)>>)
  \o <<Done(p)>>

\* pull.values(paths): the stream hands out every path in its order, then ends
pullValues(paths, p) ==
  [j \in 1..Len(paths) |-> Resolved(NullValue, paths[j], p)] \o <<Done(p)>>

\* format.resolver.tree(block.data, cb) and p.resolve(pull.values(paths)): the
\* stream holds the paths, then ends
treeStreamValues ==
  /\ it.kind = "tree" /\ pull.pc = "tree"
  /\ out' = pullValues(filterPaths(pluginTree(pull.format.name, pull.block),
                                    it.filter), pull)
  /\ pull' = IdlePull
  /\ UNCHANGED <<other, parked, resolvers, loadFormat, store, it, loads, putLog, lastCall>>

\* a read of the recursive stream; a sink reads no more after an error
treeRead ==
  /\ it.kind = "tree" /\ it.recursive
  /\ pull.pc = "idle" /\ Len(out) < MaxReads
  /\ \A j \in 1..Len(out) : out[j].kind # "error"
  /\ pull' = [IdlePull EXCEPT !.pc = "traverse"]
  /\ UNCHANGED <<other, parked, resolvers, loadFormat, store, it, out, loads, putLog, lastCall>>

\* widthFirst's next(): the end when the queue is empty; a stream that ended
\* leaves the queue; a deferred source at the front runs its waterfall; else the
\* front stream hands out an element, the stream of that element joins the
\* queue, and its path is what the read yields unless a filter drops it
treeTraverse ==
  /\ it.kind = "tree" /\ pull.pc = "traverse"
  /\ LET q == it.streams IN
     IF q = <<>>
     THEN Settle(Done(pull)) /\ it' = it /\ UNCHANGED loads
     ELSE IF Head(q).deferred
     THEN /\ getFormat(_codecFromName(Head(q).el.cid.codec), "traverse.bs.get", pull)
          /\ out' = out /\ it' = it
     ELSE IF Head(q).els = <<>>
     THEN /\ it' = [it EXCEPT !.streams = Tail(q)]
          /\ pull' = pull /\ out' = out /\ UNCHANGED loads
     ELSE LET el == Head(Head(q).els)
              rest == <<Values(Tail(Head(q).els))>> \o Tail(q)
              e == filterPath(el.basePath, it.filter)
          IN /\ it' = [it EXCEPT !.streams = pushStream(rest, createStream(el))]
             /\ IF e = <<>>
                THEN pull' = pull /\ out' = out
                ELSE Settle(Resolved(NullValue, e, [pull EXCEPT !.src = el.layer]))
             /\ UNCHANGED loads
  /\ UNCHANGED <<other, parked, resolvers, loadFormat, store, putLog, lastCall>>

\* this.bs.get(cid, ...) of the waterfall of a deferred source; an error aborts
\* the source
treeTraverseGet ==
  /\ it.kind = "tree" /\ pull.pc = "traverse.bs.get"
  /\ LET cid == Head(it.streams).el.cid IN
     IF bsHas(cid)
     THEN /\ pull' = [pull EXCEPT !.pc = "traverse.tree", !.block = bsGet(cid),
                                  !.readCid = cid]
          /\ out' = out /\ it' = [it EXCEPT !.reads = @ + 1]
     ELSE /\ pull' = [pull EXCEPT !.pc = "traverse.abort", !.readCid = cid,
                                  !.err = Error("NotFound")]
          /\ out' = out /\ it' = [it EXCEPT !.reads = @ + 1]
  /\ UNCHANGED <<other, parked, resolvers, loadFormat, store, loads, putLog, lastCall>>

\* deferred.abort(err): the source at the front of the queue ends with the
\* error. What widthFirst does with a stream that ends with an error is
\* pull-traverse's: it hands the error to the reader and the traversal is over,
\* or it takes the stream off the queue as it does with one that ended and
\* reads on (dropped)
treeTraverseAbort(dropped) ==
  /\ it.kind = "tree" /\ pull.pc = "traverse.abort"
  /\ it' = [it EXCEPT !.streams = IF dropped THEN Tail(@) ELSE <<>>,
                      !.failure = IF @ = NoErr THEN pull.err ELSE @,
                      !.failedAt = IF it.failure = NoErr THEN Len(out) ELSE @]
  /\ IF dropped
     THEN pull' = [pull EXCEPT !.pc = "traverse", !.err = NoErr] /\ out' = out
     ELSE Settle(Rejected(pull.err, pull))
  /\ UNCHANGED <<other, parked, resolvers, loadFormat, store, loads, putLog, lastCall>>

\* format.resolver.tree and isLink of the waterfall, then deferred.resolve(
\* pull.values(...)): the source becomes the stream of the children
treeTraverseTree ==
  /\ it.kind = "tree" /\ pull.pc = "traverse.tree"
  /\ it' = [it EXCEPT !.streams =
              <<Values(childElements(Head(@).el, pull.format.name, pull.block))>>
              \o Tail(@)]
  /\ pull' = [pull EXCEPT !.pc = "traverse"]
  /\ UNCHANGED <<other, parked, resolvers, loadFormat, store, out, loads, putLog, lastCall>>

-----------------------------------------------------------------------------
(* util: first, last, all                                                  *)

\* the pulls that have not settled
InFlight ==
  (IF pull.pc = "idle" THEN 0 ELSE 1) + (IF other.pc = "idle" THEN 0 ELSE 1)

\* the results next() has returned since the reducer was called
nextCalls == (Len(out) - it.redOut) + InFlight

\* the input elements the pulls have taken
taken ==
  CASE it.kind = "remove" -> Len(it.argCids) - Len(it.cids)
    [] it.kind = "put" -> Len(it.argNodes) - Len(it.nodes)
    [] it.kind = "get" /\ it.blocksDef -> Len(it.argCids) - Len(it.blocks)
    [] OTHER -> 0

\* for await (const value of iterator), the iterator being its own
\* Symbol.asyncIterator: a turn awaits the result of next(), which is an object
\* and no promise, and takes its value, the promise next() has just made, as it
\* is. The loop is over when a result is done; first returns in the first turn
forAwait ==
  /\ it.red # "none"
  /\ \A j \in (it.redOut + 1)..Len(out) : out[j].kind # "done"
  /\ it.red = "first" => nextCalls = 0

\* a call of a reducer of the iterator, by a consumer that has no pull in flight
reducer(name) ==
  /\ it.kind \in {"resolve", "get", "put", "remove"}
  /\ pull.pc = "idle" /\ other.pc = "idle"
  /\ ~forAwait
  /\ Len(out) < MaxPulls
  /\ it' = [it EXCEPT !.red = name, !.redOut = Len(out), !.redFrom = taken]
  /\ UNCHANGED <<pull, other, parked, out, resolvers, loadFormat, store, loads, putLog,
                 lastCall>>

first == reducer("first")
last == reducer("last")
all == reducer("all")

\* next() of a remove with no CIDs left, called by the loop while deletes are
\* in flight: { done: true }
removeNextDone ==
  /\ it.kind = "remove" /\ pull.pc # "idle" /\ Len(out) < MaxPulls
  /\ forAwait
  /\ Len(it.cids) = 0
  /\ out' = Append(out, Done(IdlePull))
  /\ UNCHANGED <<it, pull, other, parked, resolvers, loadFormat, store, loads, putLog,
                 lastCall>>

\* the input of a put, get or remove
inputs == IF it.kind = "put" THEN it.argNodes ELSE it.argCids

\* the variable `value` when the loop is over: the promise of the last turn that
\* was not done, named by the input element its pull took (0: undefined)
loopValue ==
  IF it.red = "first"
  THEN IF it.redFrom < Len(inputs) THEN it.redFrom + 1 ELSE 0
  ELSE IF taken > it.redFrom THEN taken ELSE 0

\* what a promise has settled with
Pending == [kind |-> "pending"]
Settled(o) ==
  [kind |-> o.kind, value |-> o.value, remainderPath |-> o.remainderPath,
   err |-> o.err]
Undefined ==
  [kind |-> "value", value |-> NullValue, remainderPath |-> <<>>, err |-> NoErr]

\* what the pull of an input element settled with
settledWith(i) ==
  IF \E j \in 1..Len(out) : out[j].src = i /\ out[j].kind # "done"
  THEN Settled(out[CHOOSE j \in 1..Len(out) : out[j].src = i /\ out[j].kind # "done"])
  ELSE Pending

\* the promise of the one turn of first: of put and remove, whose next() takes
\* the input element, the promise of that element; of resolve and get the
\* first to settle after the call
firstValue ==
  IF it.kind \in {"put", "remove"}
  THEN IF loopValue = 0 THEN Undefined ELSE settledWith(loopValue)
  ELSE IF Len(out) = it.redOut THEN Pending
  ELSE IF out[it.redOut + 1].kind = "done" THEN Undefined
  ELSE Settled(out[it.redOut + 1])

\* the promise of the reducer: first and last return `value` and settle as
\* that promise does, all returns the array `values` of the promises of the
\* turns
returned ==
  IF it.red = "none" \/ forAwait THEN Pending
  ELSE IF it.red = "first" THEN firstValue
  ELSE IF it.red = "all"
  THEN [kind |-> "array",
        values |-> [k \in 1..(taken - it.redFrom) |-> settledWith(it.redFrom + k)]]
  ELSE IF loopValue = 0 THEN Undefined
  ELSE settledWith(loopValue)

-----------------------------------------------------------------------------
(* The resolver after construction, and what callers do with it            *)

\* CIDs of blocks of the three codecs
Base1Cid == CidOf(1, "base1", DefaultHashAlg, 1)
EthCid == CidOf(1, "eth-block", DefaultHashAlg, 1)

AllBlocks ==
  {BlockOf(1, "dag-cbor"), BlockOf(2, "dag-cbor"), BlockOf(3, "dag-cbor"),
   BlockOf(4, "dag-cbor"), BlockOf(1, "base1"), BlockOf(1, "eth-block")}

\* the block stores a run starts from
InitStores ==
  {AllBlocks, {}, AllBlocks \ {BlockOf(1, "dag-cbor"), BlockOf(1, "base1")}}

\* the formats option of the constructor
InitFormats == {{}, {"dag-cbor"}, {"dag-cbor", "eth-block"}}

\* the constructor: addFormat for every supplied format
constructorResolvers(formats) ==
  [c \in Codecs |->
     IF \E n \in formats : _codecFromName(n) = c
     THEN Entry(CHOOSE n \in formats : _codecFromName(n) = c, "add")
     ELSE NoEntry]

NoCall == [op |-> "none", codec |-> UndefinedCodec, err |-> NoErr, tick |-> FALSE]

Init ==
  /\ \E formats \in InitFormats : resolvers = constructorResolvers(formats)
  /\ loadFormat \in {"default", "custom"}
  /\ store \in InitStores
  /\ it = NoIt
  /\ pull = IdlePull
  /\ other = IdlePull
  /\ parked = NoSequence
  /\ out = <<>>
  /\ loads = [c \in Codecs |-> NoLoads]
  /\ putLog = {}
  /\ lastCall = NoCall

ResolveCids == {Cbor(3), Cbor(4), Base1Cid, EthCid}
ResolvePaths ==
  { <<>>, <<"d">>, <<"z">>, <<"o", "/", "d">>, <<"/", "o", "/", "d">>,
    <<"t", "/", "o", "/", "d">>, <<"t", "/", "o">>, <<"t", "/", "z">> }

GetCids == {<<>>, <<Cbor(1)>>, <<Cbor(2), Cbor(1)>>, <<Base1Cid>>, <<EthCid>>,
            <<Cbor(1), Base1Cid>>, <<EthCid, Cbor(2)>>}

PutNodes == {<<>>, <<1>>, <<2, 1>>}
PutOptions ==
  {Options(c, "", 0, FALSE, {}) : c \in Codecs}
  \cup {Options(_codecFromName("dag-cbor"), "", 0, TRUE, {"onlyHash"})}

RemoveCids == {<<>>, <<Cbor(1)>>, <<Cbor(2), Cbor(1)>>}

TreeCids == {Cbor(3), Base1Cid}
TreePaths == {<<>>, <<"t">>, <<"z">>}

\* arguments of the wrong type
NotACid == {Arg("string", <<"d">>), Arg("undefined", <<>>)}
NotAString == {Arg("number", <<>>), Arg("undefined", <<>>)}
NotIterable ==
  {Arg("string", <<"d">>), Arg("number", <<>>), Arg("Buffer", <<>>),
   Arg("undefined", <<>>)}
NotOptions ==
  {Arg("undefined", <<>>)}
  \cup {UserOptions(t, Options(UndefinedCodec, "", 0, FALSE, {})) :
          t \in {"undefined", "string"}}

\* the arguments a caller passes
ResolveCidArgs == {Arg("CID", c) : c \in ResolveCids} \cup NotACid
ResolvePathArgs == {Arg("string", q) : q \in ResolvePaths} \cup NotAString
GetArgs == {Arg("iterable", cs) : cs \in GetCids} \cup NotIterable
PutNodeArgs == {Arg("iterable", ns) : ns \in PutNodes} \cup NotIterable
PutOptionArgs == {UserOptions("number", o) : o \in PutOptions} \cup NotOptions
RemoveArgs == {Arg("iterable", cs) : cs \in RemoveCids} \cup NotIterable

Next ==
  \/ \E n \in Names : addFormat(n)
  \/ \E c \in Codecs : removeFormat(c)
  \/ getFormatLoaded
  \/ \E c \in ResolveCidArgs, p \in ResolvePathArgs : resolve(c, p)
  \/ resolveNext
  \/ resolveGet
  \/ resolveResolve
  \/ \E cs \in GetArgs : get(cs)
  \/ getNext
  \/ getMany
  \/ getDeserialize
  \/ \E ns \in PutNodeArgs, o \in PutOptionArgs : put(ns, o)
  \/ putNext
  \/ putOptions
  \/ \E err \in CidErrors : putCid(err)
  \/ \E err \in PutErrors : _put(err)
  \/ \E cs \in RemoveArgs : remove(cs)
  \/ removeNext
  \/ \E err \in DeleteErrors : removeDelete(err)
  \/ \E c \in TreeCids, q \in TreePaths, r \in BOOLEAN : treeStreamCall(c, q, r)
  \/ treeStreamGet
  \/ treeStreamValues
  \/ treeRead
  \/ treeTraverse
  \/ treeTraverseGet
  \/ \E dropped \in BOOLEAN : treeTraverseAbort(dropped)
  \/ treeTraverseTree
  \/ interleave

Spec == Init /\ [][Next]_vars

-----------------------------------------------------------------------------
(* Restrictions of Next to one component and to fewer inputs               *)

\* one CID per codec
CodecCids == {Cbor(1), Base1Cid, EthCid}

\* the format registry: addFormat, removeFormat and the lookups of resolve pulls
NextRegistry ==
  \/ \E n \in Names : addFormat(n)
  \/ \E c \in Codecs : removeFormat(c)
  \/ getFormatLoaded
  \/ \E c \in CodecCids : resolveCall(c, <<>>)
  \/ resolveNext
  \/ resolveGet
  \/ resolveResolve

\* the registry does not read the store: one store is enough
InitRegistry == Init /\ store = AllBlocks

SpecRegistry == InitRegistry /\ [][NextRegistry]_vars

\* the path resolver
NextResolve ==
  \/ getFormatLoaded
  \/ \E c \in ResolveCids, p \in ResolvePaths : resolveCall(c, p)
  \/ resolveNext
  \/ resolveGet
  \/ resolveResolve

SpecResolve == Init /\ [][NextResolve]_vars

\* the bulk accessor
NextBulk ==
  \/ getFormatLoaded
  \/ \E cs \in GetCids : getCall(cs)
  \/ getNext
  \/ getMany
  \/ getDeserialize
  \/ \E ns \in PutNodes, o \in PutOptions : putCall(ns, o)
  \/ putNext
  \/ putOptions
  \/ putCid(NoErr)
  \/ _put(NoErr)
  \/ \E cs \in RemoveCids : removeCall(cs)
  \/ removeNext
  \/ removeDelete(NoErr)

SpecBulk == Init /\ [][NextBulk]_vars

\* the bulk accessor over a block service whose operations can fail, on
\* dag-cbor nodes
StoreCids == {<<Cbor(1)>>, <<Cbor(2), Cbor(1)>>}
StoreNodes == {<<1>>, <<2, 1>>}

NextStore ==
  \/ getFormatLoaded
  \/ \E cs \in StoreCids : getCall(cs)
  \/ getNext
  \/ getMany
  \/ getDeserialize
  \/ \E ns \in StoreNodes :
       putCall(ns, Options(_codecFromName("dag-cbor"), "", 0, FALSE, {}))
  \/ putNext
  \/ putOptions
  \/ putCid(NoErr)
  \/ \E err \in PutErrors : _put(err)
  \/ \E cs \in StoreCids : removeCall(cs)
  \/ removeNext
  \/ \E err \in DeleteErrors : removeDelete(err)

SpecStore == Init /\ [][NextStore]_vars

\* the four methods called with arguments of every type, on one CID, path or
\* node
CallCidArgs == {Arg("CID", Cbor(3)), Arg("string", <<"d">>)}
CallPathArgs == {Arg("string", <<"d">>), Arg("number", <<>>)}
CallCidsArgs ==
  {Arg("iterable", <<Cbor(1)>>), Arg("string", <<"d">>), Arg("number", <<>>),
   Arg("Buffer", <<>>)}
CallNodeArgs == {Arg("iterable", <<1>>), Arg("string", <<"d">>)}
CallOptionArgs ==
  {UserOptions("number", Options(_codecFromName("dag-cbor"), "", 0, FALSE, {}))}
  \cup NotOptions

NextCalls ==
  \/ getFormatLoaded
  \/ \E c \in CallCidArgs, p \in CallPathArgs : resolve(c, p)
  \/ resolveNext
  \/ resolveGet
  \/ resolveResolve
  \/ \E cs \in CallCidsArgs : get(cs)
  \/ getNext
  \/ getMany
  \/ getDeserialize
  \/ \E ns \in CallNodeArgs, o \in CallOptionArgs : put(ns, o)
  \/ putNext
  \/ putOptions
  \/ putCid(NoErr)
  \/ _put(NoErr)
  \/ \E cs \in CallCidsArgs : remove(cs)
  \/ removeNext
  \/ removeDelete(NoErr)

\* the loader is the default one
InitCalls == Init /\ loadFormat = "default"

SpecCalls == InitCalls /\ [][NextCalls]_vars

\* put with the options a caller can give: none, hashAlg, version (0 as for
\* dag-pb in the tests), onlyHash, and all of them
OptionSets ==
  LET c == _codecFromName("dag-cbor") IN
  {Options(c, "", 0, FALSE, {}),
   Options(c, "sha3-512", 0, FALSE, {"hashAlg"}),
   Options(c, "", 0, FALSE, {"version"}),
   Options(c, "", 0, TRUE, {"onlyHash"}),
   Options(c, "sha3-512", 1, FALSE, {"hashAlg", "version", "onlyHash"})}

NextOptions ==
  \/ getFormatLoaded
  \/ \E ns \in StoreNodes, o \in OptionSets : putCall(ns, o)
  \/ putNext
  \/ putOptions
  \/ putCid(NoErr)
  \/ _put(NoErr)

SpecOptions == Init /\ [][NextOptions]_vars

\* the tree enumerator, over a store that holds node 6 too
TreeBlocks == AllBlocks \cup {BlockOf(6, "dag-cbor")}
TreeStores == {TreeBlocks, TreeBlocks \ {BlockOf(1, "dag-cbor")}}
TreeRoots == {Cbor(3), Cbor(6)}

InitTree ==
  /\ \E formats \in InitFormats : resolvers = constructorResolvers(formats)
  /\ loadFormat \in {"default", "custom"}
  /\ store \in TreeStores
  /\ it = NoIt
  /\ pull = IdlePull
  /\ other = IdlePull
  /\ parked = NoSequence
  /\ out = <<>>
  /\ loads = [c \in Codecs |-> NoLoads]
  /\ putLog = {}
  /\ lastCall = NoCall

NextTree ==
  \/ getFormatLoaded
  \/ \E c \in TreeRoots, q \in TreePaths, r \in BOOLEAN : treeStreamCall(c, q, r)
  \/ treeStreamGet
  \/ treeStreamValues
  \/ treeRead
  \/ treeTraverse
  \/ treeTraverseGet
  \/ \E dropped \in BOOLEAN : treeTraverseAbort(dropped)
  \/ treeTraverseTree

SpecTree == InitTree /\ [][NextTree]_vars

\* get with pulls that overlap
NextOverlap ==
  \/ getFormatLoaded
  \/ \E cs \in StoreCids : getCall(cs)
  \/ getNext
  \/ getMany
  \/ getDeserialize
  \/ interleave

SpecOverlap == Init /\ [][NextOverlap]_vars

\* the reducers over remove: the turns of a loop call next(), the callbacks of
\* the block service run when no loop is running
NextReduce ==
  \/ \E cs \in RemoveCids : removeCall(cs)
  \/ first
  \/ last
  \/ all
  \/ removeNext
  \/ removeNextDone
  \/ ~forAwait /\ \E err \in DeleteErrors : removeDelete(err)
  \/ interleave

SpecReduce == Init /\ [][NextReduce]_vars

\* sequential pulls, by next() and by first(), of the four kinds of iterator
SinglePassCids == {Cbor(3), Cbor(4)}
SinglePassPaths == { <<>>, <<"o", "/", "d">>, <<"t", "/", "o", "/", "d">> }

NextSinglePass ==
  \/ getFormatLoaded
  \/ \E c \in SinglePassCids, q \in SinglePassPaths : resolveCall(c, q)
  \/ resolveNext
  \/ resolveGet
  \/ resolveResolve
  \/ \E cs \in StoreCids : getCall(cs)
  \/ getNext
  \/ getMany
  \/ getDeserialize
  \/ \E ns \in StoreNodes :
       putCall(ns, Options(_codecFromName("dag-cbor"), "", 0, FALSE, {}))
  \/ putNext
  \/ putOptions
  \/ putCid(NoErr)
  \/ _put(NoErr)
  \/ \E cs \in StoreCids : removeCall(cs)
  \/ removeNext
  \/ removeDelete(NoErr)
  \/ first

SpecSinglePass == Init /\ [][NextSinglePass]_vars

\* two iterators of resolve and get, pulled in any interleaving
IsolationCids == {Cbor(3)}
IsolationPaths == { <<"o", "/", "d">>, <<"z">> }
IsolationGets == {<<Cbor(2), Cbor(1)>>, <<EthCid>>}

NextIsolation ==
  \/ getFormatLoaded
  \/ \E c \in IsolationCids, q \in IsolationPaths : resolveCall(c, q)
  \/ resolveNext
  \/ resolveGet
  \/ resolveResolve
  \/ \E cs \in IsolationGets : getCall(cs)
  \/ getNext
  \/ getMany
  \/ getDeserialize
  \/ switch

SpecIsolation == Init /\ [][NextIsolation]_vars

\* addFormat and removeFormat, with the lookups of the resolves of one block
NextFormats ==
  \/ \E n \in Names : addFormat(n)
  \/ \E c \in Codecs : removeFormat(c)
  \/ getFormatLoaded
  \/ resolveCall(Cbor(1), <<>>)
  \/ resolveNext
  \/ resolveGet
  \/ resolveResolve

SpecFormats == InitRegistry /\ [][NextFormats]_vars

\* removeFormat between the pulls of a put or a resolve, on a resolver with the
\* default loader
RemovalOptions ==
  {Options(_codecFromName("dag-cbor"), "", 0, FALSE, {}),
   Options(_codecFromName("dag-cbor"), "", 0, TRUE, {"onlyHash"})}

NextRemoval ==
  \/ \E c \in Codecs : pull.pc = "idle" /\ removeFormat(c)
  \/ getFormatLoaded
  \/ \E o \in RemovalOptions : putCall(<<2, 1>>, o)
  \/ putNext
  \/ putOptions
  \/ putCid(NoErr)
  \/ _put(NoErr)
  \/ resolveCall(Cbor(3), <<"o", "/", "d">>)
  \/ resolveNext
  \/ resolveGet
  \/ resolveResolve

SpecRemoval == InitCalls /\ [][NextRemoval]_vars

\* get and put of two elements with every failure of an element
ElementCids == {<<EthCid, Cbor(2)>>, <<Cbor(2), Cbor(1)>>}

NextElements ==
  \/ getFormatLoaded
  \/ \E cs \in ElementCids : getCall(cs)
  \/ getNext
  \/ getMany
  \/ getDeserialize
  \/ \E o \in RemovalOptions : putCall(<<2, 1>>, o)
  \/ putNext
  \/ putOptions
  \/ \E err \in CidErrors : putCid(err)
  \/ \E err \in PutErrors : _put(err)

SpecElements == Init /\ [][NextElements]_vars

\* resolve of the values of every shape
ShapeBlocks == AllBlocks \cup {BlockOf(7, "dag-cbor")}
ShapePaths == {<<>>, <<"n">>, <<"u">>, <<"e">>, <<"c">>, <<"b">>, <<"s">>, <<"s", "/", "d">>}

InitShapes ==
  /\ \E formats \in InitFormats : resolvers = constructorResolvers(formats)
  /\ loadFormat \in {"default", "custom"}
  /\ store = ShapeBlocks
  /\ it = NoIt
  /\ pull = IdlePull
  /\ other = IdlePull
  /\ parked = NoSequence
  /\ out = <<>>
  /\ loads = [c \in Codecs |-> NoLoads]
  /\ putLog = {}
  /\ lastCall = NoCall

NextShapes ==
  \/ getFormatLoaded
  \/ \E p \in ShapePaths : resolveCall(Cbor(7), p)
  \/ resolveCall(Cbor(3), <<"o", "/", "d">>)
  \/ resolveNext
  \/ resolveGet
  \/ resolveResolve

SpecShapes == InitShapes /\ [][NextShapes]_vars

\* resolve with pulls that overlap
OverlapPaths == { <<"d">>, <<"o", "/", "d">>, <<"t", "/", "o", "/", "d">> }

NextResolveOverlap ==
  \/ getFormatLoaded
  \/ \E p \in OverlapPaths : resolveCall(Cbor(3), p)
  \/ resolveNext
  \/ resolveGet
  \/ resolveResolve
  \/ interleave

SpecResolveOverlap == Init /\ [][NextResolveOverlap]_vars

\* the five operations one after the other, the registry left to them
FrameOptions ==
  RemovalOptions \cup {Options(_codecFromName("eth-block"), "", 0, FALSE, {})}
FrameRemoves == {<<Cbor(1)>>, <<Cbor(2), Cbor(1)>>}

NextFrame ==
  \/ getFormatLoaded
  \/ resolveCall(Cbor(3), <<"o", "/", "d">>)
  \/ resolveNext
  \/ resolveGet
  \/ resolveResolve
  \/ getCall(<<Cbor(2), Cbor(1)>>)
  \/ getNext
  \/ getMany
  \/ getDeserialize
  \/ \E o \in FrameOptions : putCall(<<2, 1>>, o)
  \/ putNext
  \/ putOptions
  \/ \E err \in CidErrors : putCid(err)
  \/ \E err \in PutErrors : _put(err)
  \/ \E cs \in FrameRemoves : removeCall(cs)
  \/ removeNext
  \/ \E err \in DeleteErrors : removeDelete(err)
  \/ \E r \in BOOLEAN : treeStreamCall(Cbor(3), <<>>, r)
  \/ treeStreamGet
  \/ treeStreamValues
  \/ treeRead
  \/ treeTraverse
  \/ treeTraverseGet
  \/ \E dropped \in BOOLEAN : treeTraverseAbort(dropped)
  \/ treeTraverseTree

SpecFrame == Init /\ [][NextFrame]_vars

\* every operation, on one CID, node or format per codec
NextCodec ==
  \/ getFormatLoaded
  \/ \E c \in CodecCids : resolveCall(c, <<>>)
  \/ resolveNext
  \/ resolveGet
  \/ resolveResolve
  \/ \E c \in CodecCids : getCall(<<c>>)
  \/ getNext
  \/ getMany
  \/ getDeserialize
  \/ \E ns \in {<<>>, <<1>>}, c \in Codecs : putCall(ns, Options(c, "", 0, FALSE, {}))
  \/ putNext
  \/ putOptions
  \/ putCid(NoErr)
  \/ _put(NoErr)
  \/ \E c \in CodecCids : treeStreamCall(c, <<>>, FALSE)
  \/ treeStreamGet
  \/ treeStreamValues

SpecCodec == Init /\ [][NextCodec]_vars

-----------------------------------------------------------------------------
(* Properties of the format registry (SpecRegistry)                        *)

\* the name a codec id stands for
NameOf(codec) == CHOOSE n \in Names : _codecFromName(n) = codec

\* a step that is an addFormat or a removeFormat call
RegistryCall(op) == lastCall'.tick # lastCall.tick /\ lastCall'.op = op

\* C8: addFormat for a codec id that has a registry entry fails with an error
\* and leaves every entry of the registry as it was; for a codec id without an
\* entry it succeeds and inserts exactly the entry of that format.
C8_AddFormat ==
  [][RegistryCall("addFormat") =>
       LET codec == lastCall'.codec
       IN IF resolvers[codec] # NoEntry
          THEN /\ lastCall'.err # NoErr
               /\ resolvers' = resolvers
          ELSE /\ lastCall'.err = NoErr
               /\ resolvers' = [resolvers EXCEPT ![codec] = Entry(NameOf(codec), "add")]
    ]_vars

\* C8, the case: a duplicate addFormat has failed while the entry it found is
\* still in the registry
C8_Witness ==
  /\ lastCall.op = "addFormat"
  /\ lastCall.err.type = "AlreadyExists"
  /\ resolvers[lastCall.codec] # NoEntry

\* C9 as stated: the loader is invoked at most once per codec id between two
\* removeFormat calls for that codec.
C9_AtMostOneInvocation == \A c \in Codecs : loads[c].calls <= 1

\* C9 as amended: the loader is invoked only on a registry miss (never for a
\* codec that has an entry), and between two removeFormat calls for a codec at
\* most one invocation for it returns a format; an invocation that failed
\* caches nothing and may be repeated.
C9_LoaderOnlyOnMiss ==
  [][\A c \in Codecs :
       /\ loads'[c].calls > loads[c].calls => resolvers[c] = NoEntry
       /\ loads'[c].ok <= 1
    ]_vars

\* C9, the case: a codec was loaded once, and a later pull found the cached
\* entry without a further invocation of the loader
C9_Witness ==
  \E c \in Codecs :
    /\ loads[c] = [calls |-> 1, ok |-> 1]
    /\ resolvers[c] = Entry(NameOf(c), "load")
    /\ Len(out) >= 1 /\ out[1].kind = "value" /\ out[1].lookedUp
    /\ it.argCid.codec = NameOf(c)
    /\ pull.pc = "idle"
    /\ \E d \in Codecs : d # c /\ loads[d].calls > 0

\* the error a lookup of an unloadable codec fails with: the loader's own, or the
\* default loader's, which names the codec
LoaderError(codec) ==
  IF loadFormat = "default" THEN NoResolverError(NameOf(codec)) ELSE Error("Loader")

\* the loader of the model cannot load the codec
Unloadable(codec) == loadFormat = "default" \/ codec \notin Loadable

\* the codec a pull of the iterator looks up first
LookupCodec == _codecFromName(it.cid.codec)

\* C10: when the loader fails for a codec id the lookup fails with the loader's
\* own error (the default loader's error names the codec), nothing is cached
\* and the registry is unchanged; a lookup of a codec without an entry always
\* invokes the loader, so it is invoked again after a failure.
C10_LoadFailure ==
  [][/\ (pull.pc = "loading" /\ pull'.pc # "loading" /\ Unloadable(pull.codec)) =>
          /\ resolvers' = resolvers
          /\ out' = Append(out, Rejected(LoaderError(pull.codec), pull))
          /\ pull'.pc = "idle"
     /\ (it.kind = "resolve" /\ ~pull.lookedUp /\ pull'.lookedUp /\ it' = it) =>
          /\ (pull'.pc = "loading") = (resolvers[LookupCodec] = NoEntry)
          /\ pull'.pc = "loading" =>
               /\ pull'.codec = LookupCodec
               /\ loads'[LookupCodec].calls = loads[LookupCodec].calls + 1
    ]_vars

\* C10, the case: two pulls in a row failed in the loader, which was invoked for
\* each of them, and the codec has no entry
C10_Witness ==
  /\ it.kind = "resolve" /\ Len(out) >= 2
  /\ out[1].kind = "error" /\ out[2].kind = "error"
  /\ out[1].err = LoaderError(LookupCodec) /\ out[2].err = LoaderError(LookupCodec)
  /\ loads[LookupCodec].calls = 2 /\ loads[LookupCodec].ok = 0
  /\ resolvers[LookupCodec] = NoEntry

-----------------------------------------------------------------------------
(* Properties of the first pull on an unknown codec (SpecCodec)            *)

\* the call of the iterator had something to work on
HasInput ==
  CASE it.kind \in {"resolve", "tree"} -> TRUE
    [] it.kind = "get" -> it.argCids # <<>>
    [] it.kind = "put" -> it.argNodes # <<>>
    [] OTHER -> FALSE

\* the codec the first pull of the iterator looks up
FirstCodec ==
  CASE it.kind \in {"resolve", "tree"} -> _codecFromName(it.argCid.codec)
    [] it.kind = "get" -> _codecFromName(it.argCids[1].codec)
    [] it.kind = "put" -> it.userOptions.format

\* the first pull of resolve, get, put or treeStream on a codec that has no
\* entry and that the loader cannot load has settled
UnknownCodecPulled ==
  /\ HasInput
  /\ resolvers[FirstCodec] = NoEntry
  /\ Unloadable(FirstCodec)
  /\ Len(out) >= 1

\* C1: the first pull of resolve, get, put and treeStream on an unregistered,
\* unloadable codec fails with the unknown-codec error naming that codec (the
\* supplied loader's own error when one was supplied), never with a different
\* error, whatever the store holds.
C1_UnknownCodecAlways ==
  UnknownCodecPulled =>
    /\ out[1].kind = "error"
    /\ out[1].err = LoaderError(FirstCodec)

\* C1, what the code does instead: resolve, put and treeStream fail so before
\* any read of the store; get reads its blocks first, so it fails so when the
\* store holds them and with the store's not-found error, without a lookup,
\* when it does not.
C1_UnknownCodecAfterRead ==
  UnknownCodecPulled =>
    IF it.kind = "get" /\ ~bsGetManyOk(it.argCids)
    THEN out[1] = Rejected(Error("NotFound"), IdlePull)
    ELSE /\ out[1].kind = "error"
         /\ out[1].err = LoaderError(FirstCodec)
         /\ out[1].lookedUp
         /\ out[1].readCid = NoCID

\* C1, the diverging case: without a supplied loader, the first pull of get on
\* a CID of an unregistered codec whose block the store does not hold has failed
\* with the store's error, and the registry was never asked
C1_Witness ==
  /\ it.kind = "get" /\ it.argCids = <<Base1Cid>> /\ Len(out) >= 1
  /\ loadFormat = "default"
  /\ resolvers[FirstCodec] = NoEntry
  /\ ~bsHas(Base1Cid)
  /\ out[1].err = Error("NotFound")
  /\ ~out[1].lookedUp

-----------------------------------------------------------------------------
(* Properties of get, put and remove (SpecBulk)                            *)

\* C2: when put([n], {format: f}) with onlyHash false has stored n under CID c
\* and no remove of c followed, the first pull of get([c]) yields n.
C2_RoundTrip ==
  (/\ it.kind = "get" /\ Len(it.argCids) = 1 /\ Len(out) >= 1
   /\ \E e \in putLog : e[1] = it.argCids[1] /\ e[2] # 0) =>
     \E e \in putLog :
       /\ e[1] = it.argCids[1]
       /\ out[1].kind = "value"
       /\ out[1].value = ObjValue(e[2])

\* C2, the case: a store that started empty holds a node put in a format whose
\* codec id takes two bytes, and get has yielded that node
C2_Witness ==
  /\ it.kind = "get" /\ it.argCids = <<EthCid>>
  /\ <<EthCid, 1>> \in putLog
  /\ store = {Block(EthCid, "eth-block", 1)}
  /\ Len(out) >= 1 /\ out[1].value = ObjValue(1)

\* the input of the call, and the outcome of its j-th element
InputLen == IF it.kind = "put" THEN Len(it.argNodes) ELSE Len(it.argCids)
OutcomeOf(j) ==
  CASE it.kind = "get" -> ObjValue(bsGet(it.argCids[j]).obj)
    [] it.kind = "put" ->
         CidValue(pluginCid(_codecName(it.userOptions.format), it.argNodes[j],
                            it.options))
    [] it.kind = "remove" -> CidValue(it.argCids[j])

\* C3: while no pull of a get, put or remove has failed, the j-th pull yields the
\* outcome of the j-th input element (the node stored under the j-th CID, the
\* CID of the j-th node, the j-th CID), and end-of-sequence comes exactly after
\* as many elements as the input has.
C3_InputOrder ==
  it.kind \in {"get", "put", "remove"} =>
    \A j \in 1..Len(out) :
      (\A i \in 1..(j - 1) : out[i].kind = "value") =>
        /\ out[j].kind = "value" =>
             /\ j <= InputLen
             /\ out[j].src = j
             /\ out[j].value = OutcomeOf(j)
        /\ out[j].kind = "done" => j = InputLen + 1

\* C3, the case: a get of two CIDs in the order node2, node1 was pulled to
\* exhaustion and yielded node2, then node1, then end-of-sequence
C3_Witness ==
  /\ it.kind = "get" /\ it.argCids = <<Cbor(2), Cbor(1)>>
  /\ Len(out) = 3
  /\ out[1].value = ObjValue(2) /\ out[2].value = ObjValue(1)
  /\ out[3].kind = "done"

-----------------------------------------------------------------------------
(* Properties of resolve (SpecResolve)                                     *)

\* the pulls before pull k have all yielded a step
StepsBefore(k) == \A i \in 1..(k - 1) : out[i].kind = "value"

\* pull k got as far as the plugin
ReachedPlugin(k) ==
  out[k].kind = "value" \/ out[k].err.type \in {"PathNotAvailable", "Deserialize"}

\* what the plugin of the CID's codec resolves inside the block of CID c
ResolveIn(c, path) == pluginResolve(c.codec, bsGet(c), path)

\* C4: whenever pull k of a resolve yields a step whose value is a CID, pull k+1
\* looks a format up and reads from the store the block of exactly that CID
\* (unless the lookup fails), hands the plugin exactly the remainderPath of step
\* k, and what it yields is what the plugin resolves for that path in that block.
C4_HopChaining ==
  it.kind = "resolve" =>
    \A k \in 1..(Len(out) - 1) :
      (out[k].kind = "value" /\ out[k].value.t = "cid") =>
        /\ out[k + 1].lookedUp
        /\ out[k + 1].readCid \in {out[k].value.c, NoCID}
        /\ out[k + 1].readCid = NoCID =>
             out[k + 1].err \in {NoResolverError(out[k].value.c.codec), Error("Loader")}
        /\ ReachedPlugin(k + 1) =>
             /\ out[k + 1].readCid = out[k].value.c
             /\ out[k + 1].usedPath = out[k].remainderPath
        /\ out[k + 1].kind = "value" =>
             LET r == ResolveIn(out[k].value.c, out[k].remainderPath)
             IN /\ out[k + 1].value = normalizeLink(r.value)
                /\ out[k + 1].remainderPath = r.remainderPath

\* C4, the case: step 1 yielded the CID of an old style link with the remainder
\* "d", and step 2 read the block of that CID and resolved "d" in it
C4_Witness ==
  /\ it.kind = "resolve" /\ it.argCid = Cbor(4) /\ it.argPath = <<"o", "/", "d">>
  /\ Len(out) >= 2
  /\ out[1].value = CidValue(Cbor(2)) /\ out[1].remainderPath = <<"d">>
  /\ out[2].readCid = Cbor(2) /\ out[2].usedPath = <<"d">>
  /\ out[2].value = StrValue("I am 2")

IsSuffix(s, t) ==
  Len(s) <= Len(t) /\ SubSeq(t, Len(t) - Len(s) + 1, Len(t)) = s

\* the path step k started from, and the prefix of it that step k consumed
PrevRemainder(k) == IF k = 1 THEN it.argPath ELSE out[k - 1].remainderPath
Consumed(k) ==
  SubSeq(PrevRemainder(k), 1, Len(PrevRemainder(k)) - Len(out[k].remainderPath))

RECURSIVE ConsumedThrough(_)
ConsumedThrough(k) ==
  IF k = 0 THEN <<>> ELSE ConsumedThrough(k - 1) \o Consumed(k)

\* a consumed prefix without the separator that ends it
StripSeparator(p) ==
  IF p # <<>> /\ p[Len(p)] = "/" THEN SubSeq(p, 1, Len(p) - 1) ELSE p

\* C5: at every step of a resolve the yielded remainderPath is a suffix of the
\* previous step's remainderPath (of the original path at step 1), the prefixes
\* consumed by the steps so far followed by the remainderPath are the original
\* path, and the remainder is the unconsumed part: the consumed prefix alone,
\* resolved in the block the step read, gives the yielded value and leaves
\* nothing.
C5_Remainder ==
  it.kind = "resolve" =>
    \A k \in 1..Len(out) :
      (out[k].kind = "value" /\ StepsBefore(k)) =>
        /\ IsSuffix(out[k].remainderPath, PrevRemainder(k))
        /\ ConsumedThrough(k) \o out[k].remainderPath = it.argPath
        /\ LET r == ResolveIn(out[k].readCid, StripSeparator(Consumed(k)))
           IN /\ r.err = NoErr
              /\ normalizeLink(r.value) = out[k].value
              /\ r.remainderPath = <<>>

\* C5, the case: "t/o/d" from node3 took three steps with the remainders "o/d",
\* "d" and ""
C5_Witness ==
  /\ it.kind = "resolve" /\ it.argCid = Cbor(3)
  /\ it.argPath = <<"t", "/", "o", "/", "d">>
  /\ Len(out) >= 3
  /\ out[1].kind = "value" /\ out[1].remainderPath = <<"o", "/", "d">>
  /\ out[2].kind = "value" /\ out[2].remainderPath = <<"d">>
  /\ out[3].kind = "value" /\ out[3].remainderPath = <<>>
  /\ Consumed(1) = <<"t", "/">> /\ Consumed(2) = <<"o", "/">>

\* C6: the first pull of a resolve is never end-of-sequence; after a step whose
\* value is a CID the next pull is not end-of-sequence and looks a format up,
\* and when the remainderPath of that step is empty and the next pull yields, it
\* yields the linked node itself; after a step whose value is not a CID, and
\* after end-of-sequence, the next pull reports end-of-sequence without a
\* registry lookup and without a read of the store.
C6_ContinueWhileCid ==
  it.kind = "resolve" =>
    /\ Len(out) >= 1 => out[1].kind # "done"
    /\ \A k \in 1..(Len(out) - 1) :
         /\ (out[k].kind = "value" /\ out[k].value.t = "cid") =>
              /\ out[k + 1].kind # "done"
              /\ out[k + 1].lookedUp
              /\ (out[k].remainderPath = <<>> /\ out[k + 1].kind = "value") =>
                   /\ out[k + 1].value = ObjValue(bsGet(out[k].value.c).obj)
                   /\ out[k + 1].readCid = out[k].value.c
         /\ ((out[k].kind = "value" /\ out[k].value.t # "cid") \/ out[k].kind = "done") =>
              out[k + 1] = Done(IdlePull)

\* C6, the case: "t/o" from node 4 ends on a link with nothing left of the
\* path; the next step yields the linked node, and the pull after it is
\* end-of-sequence
C6_Witness ==
  /\ it.kind = "resolve" /\ it.argCid = Cbor(4) /\ it.argPath = <<"t", "/", "o">>
  /\ Len(out) = 3
  /\ out[1].value = CidValue(Cbor(1)) /\ out[1].remainderPath = <<>>
  /\ out[2].value = ObjValue(1) /\ out[2].readCid = Cbor(1)
  /\ out[3] = Done(IdlePull)

\* C7: when the plugin cannot resolve a path segment, that pull of resolve fails
\* with the path-not-available error and yields no step, and every later pull on
\* the sequence reports end-of-sequence and reads nothing from the store.
C7_PathNotAvailableEnds ==
  it.kind = "resolve" =>
    \A k \in 1..Len(out) :
      out[k].err = Error("PathNotAvailable") =>
        /\ out[k].kind = "error"
        /\ \A j \in (k + 1)..Len(out) : out[j] = Done(IdlePull)

\* C7, what the code does on that pull and after it: the pull fails and yields
\* no step, and the next pull looks the format up again, reads the same block
\* again, hands the plugin the same path and fails the same way.
C7_PathNotAvailableRepeats ==
  it.kind = "resolve" =>
    \A k \in 1..Len(out) :
      out[k].err = Error("PathNotAvailable") =>
        /\ out[k].kind = "error" /\ out[k].value = NullValue
        /\ k < Len(out) =>
             /\ out[k + 1].lookedUp
             /\ out[k + 1].readCid \in {out[k].readCid, NoCID}
             /\ ReachedPlugin(k + 1) => out[k + 1] = out[k]

\* C7, the diverging case: resolve(cid(node3), "z") has failed twice with the
\* path-not-available error, and the second pull read node3's block again
C7_Witness ==
  /\ it.kind = "resolve" /\ it.argCid = Cbor(3) /\ it.argPath = <<"z">>
  /\ Len(out) >= 2
  /\ out[1].err = Error("PathNotAvailable")
  /\ out[2].err = Error("PathNotAvailable")
  /\ out[2].readCid = Cbor(3)

-----------------------------------------------------------------------------
(* Properties of put's options and of its writes (SpecBulk)                *)

\* the iterator is a put whose caller set onlyHash
OnlyHashPut ==
  it.kind = "put" /\ "onlyHash" \in it.userOptions.given /\ it.userOptions.onlyHash

\* C11: no step taken while the iterator is a put with onlyHash = true changes
\* the block store, and no pull of it gets as far as _put; so the store never
\* comes to hold a block for a yielded CID that it did not hold before.
C11_OnlyHashNoWrite ==
  [][OnlyHashPut => (store' = store /\ pull'.pc # "serialize")]_vars

\* C11, the case: a put with onlyHash = true has yielded a CID, and the store
\* holds no block for it
C11_Witness ==
  /\ OnlyHashPut /\ Len(out) >= 1
  /\ out[1].kind = "value" /\ out[1].value.t = "cid"
  /\ ~bsHas(out[1].value.c)

\* C12: when the last write or delete of a CID was a remove that yielded it, the
\* first pull of a get of that CID fails with the store's not-found error.
C12_RemovedNotFound ==
  (/\ it.kind = "get" /\ Len(it.argCids) = 1 /\ Len(out) >= 1
   /\ <<it.argCids[1], 0>> \in putLog) =>
     out[1] = Rejected(Error("NotFound"), IdlePull)

\* C12, the case: a store that held node1's block has had it removed, and the
\* get of its CID has failed
C12_Witness ==
  /\ it.kind = "get" /\ it.argCids = <<Cbor(1)>>
  /\ <<Cbor(1), 0>> \in putLog
  /\ BlockOf(1, "base1") \in store
  /\ Len(out) >= 1 /\ out[1].err = Error("NotFound")

\* C13: a remove never rolls back.  After every step of a remove iterator the
\* CIDs it has yielded have no block in the store, also after a later delete
\* failed; a failed delete settles its pull with the error, yields nothing,
\* leaves the store as it was and is not retried (its CID has left the input);
\* and a step removes from the store nothing but the block of the CID the pull
\* in flight took from the input.
C13_RemoveNoRollback ==
  [][it.kind = "remove" =>
       /\ it'.kind = "remove" =>
            \A j \in 1..Len(out') :
              out'[j].kind = "value" => \A b \in store' : b.cid # out'[j].value.c
       /\ (pull.pc = "bs.delete" /\ out' # out /\ out'[Len(out')].kind = "error") =>
            /\ store' = store
            /\ out'[Len(out')].src = pull.src
            /\ Len(it'.cids) = Len(it.argCids) - pull.src
       /\ \A b \in store \ store' :
            pull.pc = "bs.delete" /\ b.cid = it.argCids[pull.src]
    ]_vars

\* C13, the case: the delete of the second CID failed after the first CID was
\* yielded; the first block is gone, the second is still there
C13_Witness ==
  /\ it.kind = "remove" /\ it.argCids = <<Cbor(2), Cbor(1)>>
  /\ Len(out) >= 2
  /\ out[1].value = CidValue(Cbor(2)) /\ out[2].err = Error("Delete")
  /\ ~bsHas(Cbor(2)) /\ bsHas(Cbor(1))

-----------------------------------------------------------------------------
(* Properties of get's batched read (SpecOverlap)                          *)

\* C14: a get whose pulls have not failed has issued at most one batched read,
\* whatever the pattern of pulls, and none before its first pull.
C14_OneBatchedRead ==
  (it.kind = "get" /\ \A j \in 1..Len(out) : out[j].kind # "error") =>
    /\ it.reads <= 1
    /\ (Len(out) = 0 /\ pull.pc = "idle" /\ other.pc = "idle") => it.reads = 0

\* C14, the diverging case: a second pull was issued before the batched read of
\* the first had called back; two batched reads were issued and both pulls
\* yielded the first node
C14_Witness ==
  /\ it.kind = "get" /\ it.argCids = <<Cbor(2), Cbor(1)>>
  /\ it.reads = 2
  /\ Len(out) = 2
  /\ out[1].value = ObjValue(2) /\ out[2].value = ObjValue(2)

\* C15: when the store lacks the block of one CID of a get, every pull so far
\* has failed with the store's error before any format lookup, the first pull
\* included, and nothing was yielded, also not for CIDs the store holds and
\* that precede the absent one.
C15_BatchFailure ==
  (it.kind = "get" /\ \E i \in 1..Len(it.argCids) : ~bsHas(it.argCids[i])) =>
     \A j \in 1..Len(out) : out[j] = Rejected(Error("NotFound"), IdlePull)

\* C15, the case: the store holds the first CID's block and lacks the second's,
\* and the first pull has failed
C15_Witness ==
  /\ it.kind = "get" /\ it.argCids = <<Cbor(2), Cbor(1)>>
  /\ bsHas(Cbor(2)) /\ ~bsHas(Cbor(1))
  /\ Len(out) >= 1 /\ out[1].err = Error("NotFound")

-----------------------------------------------------------------------------
(* Properties of the argument validation (SpecCalls)                       *)

Methods == {"resolve", "get", "put", "remove"}

\* the arguments of the types the methods document
DocumentedArgs(op, args) ==
  CASE op = "resolve" -> args[1].type = "CID" /\ args[2].type = "string"
    [] op \in {"get", "remove"} -> args[1].type = "iterable"
    [] op = "put" -> /\ args[1].type = "iterable"
                     /\ args[2].type = "object"
                     /\ args[2].formatType = "number"

\* C16: a call of resolve, get, put or remove throws exactly when an argument
\* is not of the documented type; a call that throws returns no iterator and
\* touches neither the registry nor the store nor the loader; a call that does
\* not throw returns an iterator that has settled nothing, whatever the store
\* and the registry hold, and touches neither of them either.
C16_SynchronousValidation ==
  [][(lastCall'.tick # lastCall.tick /\ lastCall'.op \in Methods) =>
       /\ lastCall'.err # NoErr <=> ~DocumentedArgs(lastCall'.op, lastCall'.args)
       /\ UNCHANGED <<resolvers, loadFormat, store, loads, putLog>>
       /\ lastCall'.err # NoErr => UNCHANGED <<it, pull, other, out>>
       /\ lastCall'.err = NoErr =>
            /\ it'.kind = lastCall'.op
            /\ out' = <<>>
            /\ pull' = IdlePull]_vars

\* C16, the case: a get over a string has thrown although an iterator of an
\* earlier call had settled an error on a pull
C16_Witness ==
  /\ lastCall.op = "get" /\ lastCall.args[1].type = "string"
  /\ lastCall.err # NoErr
  /\ it.kind = "put" /\ Len(out) = 1 /\ out[1].kind = "error"

-----------------------------------------------------------------------------
(* Properties of put's options (SpecOptions)                               *)

\* C17: the options of a put are unresolved until its first pull; every CID
\* the put has yielded has the hash algorithm the caller gave, the plugin's
\* default one when the caller gave none, and the version the caller gave, 1
\* when the caller gave none; when the caller gave no onlyHash the block of
\* every yielded CID was written.
C17_OptionDefaults ==
  it.kind = "put" =>
    LET u == it.userOptions IN
    /\ (Len(out) = 0 /\ pull.pc = "idle") => ~it.optionsDef
    /\ \A j \in 1..Len(out) :
         out[j].kind = "value" =>
           LET cid == out[j].value.c IN
           /\ it.optionsDef
           /\ cid.hashAlg = IF "hashAlg" \in u.given THEN u.hashAlg
                            ELSE DefaultHashAlg
           /\ cid.version = IF "version" \in u.given THEN u.version ELSE 1
           /\ "onlyHash" \notin u.given =>
                <<cid, it.argNodes[out[j].src]>> \in putLog

\* C17, the case: a put of two nodes with a hash algorithm and without a
\* version has yielded both CIDs
C17_Witness ==
  /\ it.kind = "put" /\ it.userOptions.given = {"hashAlg"}
  /\ Len(out) = 2
  /\ out[1].value.c.hashAlg = "sha3-512" /\ out[2].value.c.hashAlg = "sha3-512"
  /\ out[1].value.c.version = 1 /\ out[2].value.c.version = 1

-----------------------------------------------------------------------------
(* Properties of put's write (SpecStore)                                   *)

\* a pull of a put settles
PutSettles == it.kind = "put" /\ Len(out') = Len(out) + 1

\* C18: when a pull of a put without onlyHash yields a CID, the store holds at
\* that moment a block under that CID whose bytes are the serialization of the
\* node by the plugin of the CID's codec; when the serialization or the write
\* fails, the pull fails with that error and the store is as it was.
C18_YieldAfterWrite ==
  [][(PutSettles /\ ~it.options.onlyHash) =>
       LET o == out'[Len(out')]
           node == it.argNodes[o.src]
       IN /\ o.kind = "value" =>
               pluginSerialize(o.value.c.codec, node, o.value.c) \in store'
          /\ (o.kind = "error" /\ o.err \in PutErrors) => store' = store]_vars

\* C18, the case: the block of node 1 was absent, the put of nodes 2 and 1
\* yielded the CID of node 2 and failed on the write of node 1
C18_Witness ==
  /\ it.kind = "put" /\ it.argNodes = <<2, 1>>
  /\ Len(out) = 2
  /\ out[1].kind = "value" /\ bsHas(out[1].value.c)
  /\ out[2].err = Error("Put") /\ ~bsHas(Cbor(1))

-----------------------------------------------------------------------------
(* Properties of the tree enumerator (SpecTree)                            *)

\* the paths the stream has yielded
RECURSIVE YieldedFrom(_)
YieldedFrom(j) ==
  IF j > Len(out) THEN <<>>
  ELSE (IF out[j].kind = "value" THEN <<out[j].remainderPath>> ELSE <<>>)
       \o YieldedFrom(j + 1)
Yielded == YieldedFrom(1)

NoFailure ==
  it.failure = NoErr /\ \A j \in 1..Len(out) : out[j].kind # "error"
Ended == Len(out) >= 1 /\ out[Len(out)].kind = "done"

\* the children of a node under a base path, as its plugin enumerates them
ChildrenOf(el) ==
  IF el.cid = NoCID \/ ~bsHas(el.cid) THEN <<>>
  ELSE childElements(el, el.cid.codec, bsGet(el.cid))

RECURSIVE ChildrenOfAll(_)
ChildrenOfAll(els) ==
  IF els = <<>> THEN <<>> ELSE ChildrenOf(Head(els)) \o ChildrenOfAll(Tail(els))

\* the layers below a frontier, one after the other
RECURSIVE LayersBelow(_)
LayersBelow(frontier) ==
  LET layer == ChildrenOfAll(frontier)
  IN IF layer = <<>> THEN <<>> ELSE layer \o LayersBelow(layer)

\* the paths of a node, layer by layer
ByLayer(cid) ==
  LET els == LayersBelow(<<El(<<>>, cid, 0)>>)
  IN [j \in 1..Len(els) |-> els[j].basePath]

IsPrefix(a, b) == Len(a) <= Len(b) /\ a = SubSeq(b, 1, Len(a))

\* C19: what a recursive treeStream without filter has yielded is the start of
\* the paths of the root taken layer by layer (the children of the root as its
\* plugin enumerates them, then the children of the links among them in the
\* order of those links, and so on), and all of them when the stream has ended;
\* no path of a deeper layer comes before a path of a layer above.
C19_BreadthFirst ==
  (it.kind = "tree" /\ it.recursive /\ it.filter = <<>> /\ NoFailure) =>
     /\ IsPrefix(Yielded, ByLayer(it.argCid))
     /\ Ended => Yielded = ByLayer(it.argCid)
     /\ \A i, j \in 1..Len(out) :
          (i < j /\ out[i].kind = "value" /\ out[j].kind = "value") =>
             out[i].src <= out[j].src

\* C19, the case: the three nodes of the example, enumerated to the end
C19_Witness ==
  /\ it.kind = "tree" /\ it.recursive /\ it.filter = <<>> /\ it.argCid = Cbor(3)
  /\ Ended
  /\ Yielded = << <<"o">>, <<"t">>, <<"d">>, <<"o", "/", "d">>, <<"t", "/", "o">>,
                  <<"t", "/", "d">>, <<"t", "/", "o", "/", "d">> >>

\* the entries of treeStream(cid, opts) without filter
Unfiltered(cid, recursive) ==
  IF recursive THEN ByLayer(cid)
  ELSE LET els == ChildrenOf(El(<<>>, cid, 0))
       IN [j \in 1..Len(els) |-> els[j].basePath]

\* the entries that start with x/, without that start, in their order
RECURSIVE Below(_, _)
Below(paths, x) ==
  IF paths = <<>> THEN <<>>
  ELSE (IF IsPrefix(x \o <<"/">>, Head(paths))
        THEN <<SubSeq(Head(paths), Len(x) + 2, Len(Head(paths)))>> ELSE <<>>)
       \o Below(Tail(paths), x)

\* C20: a treeStream with a filter x that has ended without failure, recursive
\* or not, has yielded the entries of the treeStream without filter that start
\* with x/, stripped of x/, in their order, and nothing else.
C20_PrefixFilter ==
  (it.kind = "tree" /\ it.filter # <<>> /\ NoFailure /\ Ended) =>
     Yielded = Below(Unfiltered(it.argCid, it.recursive), it.filter)

\* C20, the diverging case: node 6 has the keys t and to, to links to node 1;
\* the recursive treeStream with the filter t has yielded /d for to/d
C20_Witness ==
  /\ it.kind = "tree" /\ it.recursive /\ it.argCid = Cbor(6) /\ it.filter = <<"t">>
  /\ Ended
  /\ Yielded = << <<"o">>, <<"d">>, <<"o", "/", "d">>, <<"/", "d">> >>

\* the filter on the treeStreams that are not recursive; holds on these inputs:
\* the key to alone is dropped as the empty string
C20_PrefixFilterFlat == ~it.recursive => C20_PrefixFilter

\* the order by the number of segments of the paths; does not hold: the plugin
\* enumerates t/o inside node 6 before the key d of node 6
C19_SegmentOrder ==
  (it.kind = "tree" /\ it.recursive /\ it.filter = <<>> /\ NoFailure) =>
     \A i, j \in 1..Len(out) :
        (i < j /\ out[i].kind = "value" /\ out[j].kind = "value") =>
           Len(split(out[i].remainderPath)) <= Len(split(out[j].remainderPath))

\* C21: a treeStream that is not recursive and has no filter, once it has
\* handed anything out without failure, has handed out the paths the plugin of
\* the root's codec enumerates for the root's block, all of them and in the
\* plugin's order, and has ended; it has read one block, the root's, whatever
\* links the root holds.
C21_FlatTree ==
  (it.kind = "tree" /\ ~it.recursive /\ it.filter = <<>> /\ NoFailure
     /\ Len(out) >= 1) =>
       /\ Ended
       /\ Yielded = objPaths(pluginDeserialize(it.argCid.codec, bsGet(it.argCid)), 1)
       /\ it.reads = 1
       /\ \A j \in 1..Len(out) : out[j].readCid = it.argCid

\* C21, the case: node 3 holds two links; its treeStream has handed out the
\* three keys and ended after one read
C21_Witness ==
  /\ it.kind = "tree" /\ ~it.recursive /\ it.filter = <<>> /\ it.argCid = Cbor(3)
  /\ Yielded = << <<"o">>, <<"t">>, <<"d">> >>
  /\ Ended /\ it.reads = 1

\* C22: a failure in a treeStream ends the stream with that error: an error is
\* the last thing the stream hands out, and once a source of the traversal was
\* aborted and the read in flight has settled, that read has handed out the
\* error of the abort and nothing was handed out after it.
C22_FailureAborts ==
  it.kind = "tree" =>
    /\ \A j \in 1..Len(out) : out[j].kind = "error" => j = Len(out)
    /\ (it.failure # NoErr /\ pull.pc = "idle") =>
         /\ Len(out) = it.failedAt + 1
         /\ out[Len(out)] .kind = "error"
         /\ out[Len(out)].err = it.failure

\* C22, the diverging case: the store lacks node 1; the recursive treeStream of
\* node 3 aborted the source of one, went on with the children of two and
\* ended without an error
C22_Witness ==
  /\ it.kind = "tree" /\ it.recursive /\ it.filter = <<>> /\ it.argCid = Cbor(3)
  /\ it.failure = Error("NotFound") /\ it.failedAt = 3
  /\ Ended
  /\ Yielded = << <<"o">>, <<"t">>, <<"d">>, <<"t", "/", "o">>, <<"t", "/", "d">> >>

\* the failures of the treeStreams that are not recursive, and of the recursive
\* ones when the traversal hands the error of an aborted source to its reader:
\* the error is handed out once, as the last thing
C22_FailureAbortsFlat ==
  (it.kind = "tree" /\ Len(out) >= 1 /\ out[1].kind = "error") => Len(out) = 1

-----------------------------------------------------------------------------
(* Properties of the reducers (SpecReduce)                                 *)

\* the results since the call of the reducer
Since == SubSeq(out, it.redOut + 1, Len(out))
Failures == {j \in 1..Len(Since) : Since[j].kind = "error"}

\* the reducer has returned and no pull is in flight
Reduced(name) ==
  it.kind = "remove" /\ it.red = name /\ ~forAwait /\ InFlight = 0

\* the element of the input at place i, as remove yields it
Element(i) ==
  [kind |-> "value", value |-> CidValue(it.argCids[i]), remainderPath |-> <<>>,
   err |-> NoErr]

\* C23: first pulls one element and returns it, undefined on an empty
\* sequence, and leaves the rest unpulled; last and all pull until the end of
\* the sequence, last returns the final element and all every element in pull
\* order; a pull that fails makes the reducer fail with the error of the pull.
C23_Reducers ==
  /\ (Reduced("first") /\ nextCalls = 1) =>
       /\ taken = loopValue \/ loopValue = 0
       /\ returned = IF loopValue = 0 THEN Undefined ELSE settledWith(loopValue)
       /\ returned.kind = "error" => returned.err = Since[1].err
  /\ \A name \in {"last", "all"} : Reduced(name) =>
       IF Failures # {}
       THEN /\ returned.kind = "error"
            /\ \E j \in Failures : returned.err = Since[j].err
       ELSE /\ taken = Len(it.argCids)
            /\ name = "last" =>
                 returned = IF it.redFrom < Len(it.argCids)
                            THEN Element(Len(it.argCids)) ELSE Undefined
            /\ name = "all" =>
                 /\ returned.kind = "array"
                 /\ returned.values =
                      [k \in 1..(Len(it.argCids) - it.redFrom) |-> Element(it.redFrom + k)]

\* C23, the diverging case: last() of remove([cid2, cid1]); the delete of cid2
\* failed and last() returned cid1, the delete of which had been issued before
\* the failure
C23_Witness ==
  /\ Reduced("last") /\ it.argCids = <<Cbor(2), Cbor(1)>> /\ it.redFrom = 0
  /\ settledWith(1).kind = "error"
  /\ returned = Element(2)
  /\ ~bsHas(Cbor(1))

\* first, and the reducers of the runs in which no pull fails: as C23 has them
C23_ReducersNoFailure ==
  /\ (Reduced("first") /\ nextCalls = 1) =>
       /\ taken = loopValue \/ loopValue = 0
       /\ returned = IF loopValue = 0 THEN Undefined ELSE settledWith(loopValue)
  /\ \A name \in {"last", "all"} : (Reduced(name) /\ Failures = {}) =>
       /\ taken = Len(it.argCids)
       /\ name = "last" =>
            returned = IF it.redFrom < Len(it.argCids)
                       THEN Element(Len(it.argCids)) ELSE Undefined
       /\ name = "all" =>
            /\ returned.kind = "array"
            /\ returned.values =
                 [k \in 1..(Len(it.argCids) - it.redFrom) |-> Element(it.redFrom + k)]

\* the steps a resolve of path in c yields, n at most
RECURSIVE StepsOf(_, _, _)
StepsOf(c, path, n) ==
  IF n = 0 \/ c = NoCID \/ ~bsHas(c) THEN <<>>
  ELSE LET r == ResolveIn(c, path)
       IN IF r.err # NoErr \/ legacyCheckThrows(r.value) THEN <<>>
          ELSE LET v == normalizeLink(r.value)
               IN << [kind |-> "value", value |-> v,
                      remainderPath |-> r.remainderPath] >>
                  \o StepsOf(IF v.t = "cid" THEN v.c ELSE NoCID, r.remainderPath, n - 1)

\* the k-th element of the sequence of the call, or its end
EndOfSequence == [kind |-> "done", value |-> NullValue, remainderPath |-> <<>>]
ElementK(k) ==
  IF it.kind = "resolve"
  THEN LET steps == StepsOf(it.argCid, it.argPath, MaxPulls)
       IN IF k <= Len(steps) THEN steps[k] ELSE EndOfSequence
  ELSE IF k <= InputLen
       THEN [kind |-> "value", value |-> OutcomeOf(k), remainderPath |-> <<>>]
       ELSE EndOfSequence

\* C24: the pulls of a resolve, get, put or remove, made one after the other by
\* next() or by first(): while no pull has failed the k-th pull returns the
\* k-th element of the sequence (first() returns it, undefined at the end), the
\* pulls of a get, put or remove take input elements in strictly rising order,
\* so none is returned twice, and every pull after an end-of-sequence reports
\* the end again.
C24_SinglePass ==
  it.kind \in {"resolve", "get", "put", "remove"} =>
    /\ \A k \in 1..Len(out) :
         (StepsBefore(k) /\ out[k].kind # "error") =>
           /\ [kind |-> out[k].kind, value |-> out[k].value,
               remainderPath |-> out[k].remainderPath] = ElementK(k)
           /\ (it.red = "first" /\ it.redOut = k - 1 /\ ~forAwait /\ InFlight = 0) =>
                returned = IF out[k].kind = "done" THEN Undefined ELSE Settled(out[k])
    /\ \A i, j \in 1..Len(out) :
         /\ (i < j /\ out[i].kind = "done") => out[j].kind = "done"
         /\ (i < j /\ it.kind # "resolve" /\ out[i].kind = "value"
               /\ out[j].kind = "value") => out[i].src < out[j].src

\* C24, the case: three first() on one put of two nodes returned the CID of the
\* first node, the CID of the second, and undefined at the end of the sequence
C24_Witness ==
  /\ it.kind = "put" /\ it.argNodes = <<2, 1>>
  /\ Len(out) = 3 /\ out[1].kind = "value" /\ out[2].kind = "value"
  /\ out[1].value # out[2].value
  /\ out[3].kind = "done"
  /\ it.red = "first" /\ it.redOut = 2 /\ ~forAwait
  /\ returned = Undefined

\* C25: a resolve with the empty path that yields a first step yields the
\* node of the root block itself with an empty remainderPath, having read the
\* block of the root and no other; when the node is no link every later pull
\* reports the end of the sequence and reads nothing.
C25_EmptyPath ==
  (it.kind = "resolve" /\ it.argPath = <<>> /\ Len(out) >= 1 /\ out[1].kind = "value") =>
    /\ out[1].value = ObjValue(bsGet(it.argCid).obj)
    /\ out[1].remainderPath = <<>>
    /\ out[1].readCid = it.argCid
    /\ (Len(out) = 1 /\ pull.pc = "idle") => it.reads = 1
    /\ out[1].value.t # "cid" =>
         /\ \A j \in 2..Len(out) : out[j].kind = "done" /\ out[j].readCid = NoCID
         /\ pull.pc = "idle" => it.reads = 1

\* C25, the case: resolve(cid3, '') yielded node 3 and then the end, with one
\* read of the store
C25_Witness ==
  /\ it.kind = "resolve" /\ it.argCid = Cbor(3) /\ it.argPath = <<>>
  /\ Len(out) = 2
  /\ out[1].kind = "value" /\ out[1].value = ObjValue(3)
  /\ out[2].kind = "done"
  /\ it.reads = 1

\* an iterator as its call returns it
Fresh(i) ==
  /\ i.kind \in {"resolve", "get", "put", "remove"}
  /\ i = [NoIt EXCEPT !.kind = i.kind, !.cid = i.argCid, !.path = i.argPath,
                      !.cids = i.argCids, !.nodes = i.argNodes,
                      !.userOptions = i.userOptions,
                      !.argCid = i.argCid, !.argPath = i.argPath,
                      !.argCids = i.argCids, !.argNodes = i.argNodes]

\* C26: a step that ends with an iterator as its call returns it (the call of
\* resolve, get, put or remove) changes neither the store nor the registry and
\* asks no loader; a step that changes the store belongs to a pull of a put or
\* remove, concerns the one input element that pull took, which is among the
\* first k when k pulls were made, and writes the block of that node or deletes
\* the block of that CID and nothing else.
C26_Lazy ==
  [][/\ (Fresh(it') /\ out' = <<>> /\ pull'.pc = "idle") =>
          (store' = store /\ resolvers' = resolvers /\ loads' = loads)
     /\ store' # store =>
          /\ it.kind \in {"put", "remove"} /\ it' = it
          /\ pull.src \in 1..(Len(out) + 1)
          /\ pull.src <= InputLen
          /\ it.kind = "put" =>
               /\ \A b \in store' \ store : b.obj = it.argNodes[pull.src]
               /\ \A b \in store \ store' : \E c \in store' \ store : c.cid = b.cid
          /\ it.kind = "remove" =>
               /\ store' \subseteq store
               /\ \A b \in store \ store' : b.cid = it.argCids[pull.src]
    ]_vars

\* C26, the case: one pull of remove([cid2, cid1]) deleted node 2; node 1, never
\* pulled, is in the store
C26_Witness ==
  /\ it.kind = "remove" /\ it.argCids = <<Cbor(2), Cbor(1)>>
  /\ Len(out) = 1 /\ out[1].kind = "value" /\ pull.pc = "idle"
  /\ ~bsHas(Cbor(2)) /\ bsHas(Cbor(1))
  /\ it.cids = <<Cbor(1)>>

-----------------------------------------------------------------------------
(* Properties of iterators pulled side by side (SpecIsolation)             *)

\* a lookup of the codec by an iterator that runs alone: its error, its format
LookupAlone(codec) ==
  IF resolvers[codec] # NoEntry THEN NoErr ELSE loadFormatResult(codec).err
FormatAlone(codec) ==
  IF resolvers[codec] # NoEntry THEN resolvers[codec].name
  ELSE loadFormatResult(codec).format.name

Failed(err) == [kind |-> "error", value |-> NullValue, remainderPath |-> <<>>, err |-> err]
Value(v, rem) == [kind |-> "value", value |-> v, remainderPath |-> rem, err |-> NoErr]
End == [kind |-> "done", value |-> NullValue, remainderPath |-> <<>>, err |-> NoErr]

\* what n pulls of resolve(c, path) settle with when no other iterator is
\* pulled: a pull that fails leaves the CID and the path to the next pull
RECURSIVE ResolveAlone(_, _, _)
ResolveAlone(c, path, n) ==
  IF n = 0 THEN <<>>
  ELSE IF c = NoCID THEN <<End>> \o ResolveAlone(c, path, n - 1)
  ELSE IF LookupAlone(_codecFromName(c.codec)) # NoErr
  THEN <<Failed(LookupAlone(_codecFromName(c.codec)))>> \o ResolveAlone(c, path, n - 1)
  ELSE IF ~bsHas(c) THEN <<Failed(Error("NotFound"))>> \o ResolveAlone(c, path, n - 1)
  ELSE LET r == pluginResolve(FormatAlone(_codecFromName(c.codec)), bsGet(c), path)
       IN IF r.err # NoErr THEN <<Failed(r.err)>> \o ResolveAlone(c, path, n - 1)
          ELSE IF legacyCheckThrows(r.value) THEN <<>>
          ELSE LET v == normalizeLink(r.value)
               IN <<Value(v, r.remainderPath)>>
                  \o ResolveAlone(IF v.t = "cid" THEN v.c ELSE NoCID,
                                  r.remainderPath, n - 1)

\* what the k-th pull of get(cids) settles with when no other iterator is pulled
GetAlone(cids, k) ==
  IF Len(cids) = 0 THEN End
  ELSE IF \E i \in 1..Len(cids) : ~bsHas(cids[i]) THEN Failed(Error("NotFound"))
  ELSE IF k > Len(cids) THEN End
  ELSE LET codec == _codecFromName(cids[k].codec)
       IN IF LookupAlone(codec) # NoErr THEN Failed(LookupAlone(codec))
          ELSE LET node == pluginDeserialize(FormatAlone(codec), bsGet(cids[k]))
               IN IF node = 0 THEN Failed(Error("Deserialize"))
                  ELSE Value(ObjValue(node), <<>>)

\* the state a resolve is in after its pulls: the link and the remainder of
\* its last step
LastStep(o) == CHOOSE k \in 1..Len(o) : o[k].kind = "value" /\ \A j \in (k + 1)..Len(o) : o[j].kind # "value"
PendingOf(i, o) ==
  IF \A k \in 1..Len(o) : o[k].kind # "value"
  THEN <<i.argCid, i.argPath>>
  ELSE LET v == o[LastStep(o)]
       IN <<IF v.value.t = "cid" THEN v.value.c ELSE NoCID, v.remainderPath>>

Isolated(i, p, o) ==
  /\ i.kind = "resolve" =>
       /\ \A k \in 1..Len(o) :
            LET alone == ResolveAlone(i.argCid, i.argPath, k)
            IN Len(alone) = k /\ Settled(o[k]) = alone[k]
       /\ <<i.cid, i.path>> = PendingOf(i, o)
  /\ i.kind = "get" =>
       /\ \A k \in 1..Len(o) : Settled(o[k]) = GetAlone(i.argCids, k)
       /\ i.cids = i.argCids
       /\ i.blocksDef =>
            \E n \in 0..Len(i.argCids) :
              i.blocks = [j \in 1..n |-> bsGet(i.argCids[Len(i.argCids) - n + j])]

\* C27: two iterators of resolve and get of one resolver, pulled in any
\* interleaving over one store and one registry: each yields, pull by pull,
\* what it yields when it is pulled alone, whatever the pulls of the other
\* settle with, and the pending CID and path of a resolve, the input and the
\* fetched blocks of a get are those its own pulls have left.
C27_Isolation ==
  Isolated(it, pull, out) /\ Isolated(Parked.it, Parked.pull, Parked.out)

\* C27, the case: a get of a block of an unknown codec failed while the
\* resolve of one/someData in node 3 yielded the link and the value behind it
C27_Witness ==
  /\ parked # NoSequence /\ Parked.it.kind = "get"
  /\ Len(Parked.out) = 2 /\ Parked.out[1].kind = "error" /\ Parked.out[2].kind = "done"
  /\ it.kind = "resolve" /\ it.argCid = Cbor(3)
  /\ Len(out) = 2
  /\ out[1].kind = "value" /\ out[1].value = CidValue(Cbor(1))
  /\ out[2].kind = "value" /\ out[2].value = StrValue("I am 1")

\* the entries a registry can hold for a codec
Entries(c) == {NoEntry} \cup {Entry(_codecName(c), o) : o \in {"add", "load"}}

\* C28: when the loader of a lookup returns a format while a lookup of another
\* iterator for the same codec is in flight, or after such a lookup has written
\* its entry, the lookup goes on with the format its loader returned, the
\* registry holds that format for the codec and what it held for the other
\* codecs, and every entry of the registry is a whole entry or none.
C28_ConcurrentMisses ==
  [][(/\ pull.pc = "loading" /\ pull'.pc # "loading" /\ parked' = parked
      /\ loadFormatResult(pull.codec).err = NoErr
      /\ \/ Parked.pull.pc = "loading" /\ Parked.pull.codec = pull.codec
         \/ resolvers[pull.codec] # NoEntry) =>
       /\ pull'.pc = pull.then
       /\ pull'.format = loadFormatResult(pull.codec).format
       /\ resolvers' = [resolvers EXCEPT ![pull.codec] = pull'.format]
       /\ \A c \in Codecs : resolvers'[c] \in Entries(c)
       /\ out' = out
    ]_vars

\* C28, the case: two resolves in node 3 on a resolver without formats; both
\* lookups of dag-cbor called the loader, both loads returned, both resolves
\* yielded their first step and the registry holds the loaded dag-cbor
C28_Witness ==
  /\ it.kind = "resolve" /\ Parked.it.kind = "resolve"
  /\ loads[_codecFromName("dag-cbor")] = [calls |-> 2, ok |-> 2]
  /\ Len(out) >= 1 /\ out[1].kind = "value"
  /\ Len(Parked.out) >= 1 /\ Parked.out[1].kind = "value"
  /\ resolvers[_codecFromName("dag-cbor")] = Entry("dag-cbor", "load")

-----------------------------------------------------------------------------
(* removeFormat (SpecFormats)                                              *)

\* C29: removeFormat never fails; for a codec without an entry it leaves the
\* registry as it is, for a codec with an entry it takes out that entry and no
\* other; an addFormat for the codec that follows the removeFormat, no lookup
\* having loaded the codec in between, succeeds and inserts its entry.
C29_RemoveFormat ==
  [][/\ RegistryCall("removeFormat") =>
          LET codec == lastCall'.codec
          IN /\ lastCall'.err = NoErr
             /\ resolvers[codec] = NoEntry => resolvers' = resolvers
             /\ resolvers'[codec] = NoEntry
             /\ \A c \in Codecs \ {codec} : resolvers'[c] = resolvers[c]
     /\ (/\ RegistryCall("addFormat")
         /\ lastCall.op = "removeFormat" /\ lastCall.codec = lastCall'.codec
         /\ loads[lastCall.codec].ok = 0) =>
          /\ lastCall'.err = NoErr
          /\ resolvers' = [resolvers EXCEPT
                             ![lastCall.codec] = Entry(NameOf(lastCall.codec), "add")]
    ]_vars

\* C29, the case: dag-cbor, with which a resolve had yielded a node, has been
\* removed; the entry of eth-block is where it was
C29_Witness ==
  /\ loadFormat = "default"
  /\ it.kind = "resolve" /\ Len(out) >= 1 /\ out[1].kind = "value"
  /\ lastCall.op = "removeFormat" /\ lastCall.codec = _codecFromName("dag-cbor")
  /\ resolvers[_codecFromName("dag-cbor")] = NoEntry
  /\ resolvers[_codecFromName("eth-block")] = Entry("eth-block", "add")

-----------------------------------------------------------------------------
(* Old style links (SpecResolve)                                           *)

\* the value as a step carries it
AsCid(value) == IF value.t = "legacy" THEN CidValue(value.c) ELSE value

\* C30: when the plugin resolves the path of a pull to an old style link, the
\* step of that pull carries the CID of the link and the remainderPath of the
\* plugin, the CID and the path pending after it are these, and the next pull
\* looks a format up, reads the block of that CID and yields what the plugin
\* resolves for the remainderPath in it: what follows a step whose value the
\* plugin returned as a CID.
C30_LegacyLink ==
  it.kind = "resolve" =>
    \A k \in 1..Len(out) :
      (/\ out[k].kind = "value" /\ bsHas(out[k].readCid)
       /\ ResolveIn(out[k].readCid, out[k].usedPath).value.t = "legacy") =>
        LET r == ResolveIn(out[k].readCid, out[k].usedPath)
        IN /\ out[k].value = CidValue(r.value.c)
           /\ out[k].remainderPath = r.remainderPath
           /\ (k = Len(out) /\ pull.pc = "idle") =>
                it.cid = r.value.c /\ it.path = r.remainderPath
           /\ k < Len(out) =>
                /\ out[k + 1].kind # "done"
                /\ out[k + 1].lookedUp
                /\ out[k + 1].readCid \in {r.value.c, NoCID}
                /\ out[k + 1].kind = "value" =>
                     LET n == ResolveIn(r.value.c, r.remainderPath)
                     IN /\ out[k + 1].readCid = r.value.c
                        /\ out[k + 1].usedPath = r.remainderPath
                        /\ out[k + 1].value = AsCid(n.value)
                        /\ out[k + 1].remainderPath = n.remainderPath

\* C30, the case: resolve(cid4, 'one/someData'), where `one` of node 4 is an old
\* style link to node 2, yielded the CID of node 2 with the remainder someData,
\* then someData of node 2, then the end
C30_Witness ==
  /\ it.kind = "resolve" /\ it.argCid = Cbor(4) /\ it.argPath = <<"o", "/", "d">>
  /\ Len(out) = 3
  /\ out[1].kind = "value" /\ out[1].value = CidValue(Cbor(2))
  /\ out[1].remainderPath = <<"d">>
  /\ out[2].kind = "value" /\ out[2].value = StrValue("I am 2")
  /\ out[2].readCid = Cbor(2)
  /\ out[3].kind = "done"

-----------------------------------------------------------------------------
(* removeFormat between pulls (SpecRemoval)                                *)

\* the codec the pull in flight of a put or resolve needs
NeededCodec ==
  IF it.kind = "put" THEN it.userOptions.format ELSE _codecFromName(it.cid.codec)

\* the codec has no entry and the loader does not load it
Unknown(codec) ==
  resolvers[codec] = NoEntry /\ loadFormatResult(codec).err # NoErr

\* a pull of a put or resolve settles, and not with the end of the sequence
PullSettles ==
  /\ it.kind \in {"put", "resolve"} /\ it'.kind = it.kind
  /\ pull.pc # "idle" /\ Len(out') = Len(out) + 1
  /\ out'[Len(out')].kind # "done"

\* C31: a pull of a put or resolve that runs while its codec has no entry and
\* cannot be loaded (in SpecRemoval: that was started after the removeFormat)
\* fails with the error of the unknown codec.
C31_RemovedCodecFails ==
  [][(PullSettles /\ Unknown(NeededCodec)) =>
       /\ out'[Len(out')].kind = "error"
       /\ out'[Len(out')].err = NoResolverError(_codecName(NeededCodec))
    ]_vars

\* C31, the diverging case: put([node2, node1], { format: dag-cbor, onlyHash:
\* true }); the first pull yielded a CID, dag-cbor was removed, and the second
\* pull has passed the place of the lookup and is about to yield its CID
C31_Witness ==
  /\ it.kind = "put" /\ it.options.onlyHash /\ it.optionsDef
  /\ Len(out) = 1 /\ out[1].kind = "value"
  /\ pull.pc = "util.cid"
  /\ Unknown(_codecFromName("dag-cbor"))
  /\ lastCall.op = "removeFormat" /\ lastCall.codec = _codecFromName("dag-cbor")

\* the pulls that look the format up: those of resolve, and those of a put
\* that writes
C31_RemovedCodecFailsLookup ==
  [][(PullSettles /\ Unknown(NeededCodec)
        /\ ~(it.kind = "put" /\ it.optionsDef /\ it.options.onlyHash)) =>
       /\ out'[Len(out')].kind = "error"
       /\ out'[Len(out')].err = NoResolverError(_codecName(NeededCodec))
    ]_vars

-----------------------------------------------------------------------------
(* Failures of single elements (SpecElements)                              *)

\* C32: when a pull of a get or put has taken input element i (the pull of a
\* get after the batch was fetched, the pull of a put after the format was
\* looked up), whatever it settled with, the next pull takes element i + 1:
\* it yields the outcome of that element or fails for it, and it reports the
\* end of the sequence only when i was the last element.
C32_ElementIndependence ==
  it.kind \in {"get", "put"} =>
    \A k \in 1..(Len(out) - 1) :
      out[k].src > 0 =>
        IF out[k].src = InputLen
        THEN out[k + 1].kind = "done"
        ELSE /\ out[k + 1].kind # "done"
             /\ out[k + 1].src = out[k].src + 1
             /\ out[k + 1].kind = "value" =>
                  out[k + 1].value = OutcomeOf(out[k].src + 1)

\* C32, the case: the CID of node 2 could not be computed, and the next pull
\* of the put wrote node 1 and yielded its CID
C32_Witness ==
  /\ it.kind = "put" /\ it.argNodes = <<2, 1>> /\ ~it.options.onlyHash
  /\ Len(out) = 3
  /\ out[1].kind = "error" /\ out[1].err = Error("Cid") /\ out[1].src = 1
  /\ out[2].kind = "value" /\ out[2].src = 2
  /\ bsHas(out[2].value.c)
  /\ out[3].kind = "done"

\* C32, a second case: the format of the first block of a get was unknown, and
\* the next pull yielded the node of the second block
C32_WitnessGet ==
  /\ it.kind = "get" /\ it.argCids = <<EthCid, Cbor(2)>>
  /\ Len(out) = 2
  /\ out[1].kind = "error" /\ out[1].src = 1
  /\ out[2].kind = "value" /\ out[2].value = ObjValue(2)

-----------------------------------------------------------------------------
(* The shapes of the values of resolve (SpecShapes)                        *)

\* the result of the plugin for the pull that has read its block
PluginStep == pluginResolve(pull.format.name, pull.block, it.path)

\* the callback of the plugin runs with a result that is no error and no link
TerminalResult ==
  /\ it.kind = "resolve" /\ pull.pc = "resolve" /\ pull'.pc # "resolve"
  /\ PluginStep.err = NoErr
  /\ PluginStep.value.t \notin {"cid", "legacy"}

\* the pull settles with the value of the plugin and nothing is left to follow
SettlesWithValue ==
  /\ Len(out') = Len(out) + 1
  /\ out'[Len(out')].kind = "value"
  /\ out'[Len(out')].value = PluginStep.value
  /\ out'[Len(out')].remainderPath = PluginStep.remainderPath
  /\ it'.cid = NoCID
  /\ pull'.pc = "idle"

\* C33: a pull of resolve whose format lookup, block read and plugin resolve
\* succeeded settles with a step, whatever the shape of the value that is no
\* link (null, a number, an empty string, a string of one character, bytes, a
\* structure): the step carries the value as it is and no CID is left pending.
C33_TerminalValues == [][TerminalResult => SettlesWithValue]_vars

\* C33, the diverging case: resolve(cid7, 'n'), the value is null; the callback
\* threw and the pull has not settled
C33_Witness ==
  /\ it.kind = "resolve" /\ it.argCid = Cbor(7) /\ it.argPath = <<"n">>
  /\ pull.pc = "hung" /\ out = <<>>
  /\ pull.block = BlockOf(7, "dag-cbor")

\* the same for a string of one character
C33_WitnessChar ==
  /\ it.kind = "resolve" /\ it.argCid = Cbor(7) /\ it.argPath = <<"c">>
  /\ pull.pc = "hung" /\ out = <<>>

\* the values of every other shape: as C33 has them
C33_TerminalValuesOthers ==
  [][(/\ TerminalResult
      /\ PluginStep.value.t # "null"
      /\ ~(PluginStep.value.t = "str" /\ Len(PluginStep.value.s) = 1))
       => SettlesWithValue]_vars

\* a number, an empty string, bytes and a structure have been yielded
C33_WitnessOthers ==
  /\ it.kind = "resolve" /\ it.argCid = Cbor(7) /\ Len(out) = 2
  /\ out[1].kind = "value" /\ out[2].kind = "done"
  /\ out[1].value \in {NumValue, StrValue(""), BytesValue("a"), ObjValue(5)}

-----------------------------------------------------------------------------
(* Registrations during a load (SpecFormats)                               *)

\* the loader of the lookup in flight settles in this step
LoadSettles == pull.pc = "loading" /\ pull'.pc # "loading"

\* the lookup in flight found no entry for its codec when it called the loader,
\* so an entry the codec has now was installed by an addFormat during the load
AddedDuringLoad == resolvers[pull.codec] # NoEntry

\* removeFormat of the codec was the last call on the registry and came after
\* the lookup called the loader (removeFormat starts the count of loader calls
\* of the codec anew, the lookup had counted its own call)
RemovedDuringLoad ==
  /\ lastCall.op = "removeFormat" /\ lastCall.codec = pull.codec
  /\ loads[pull.codec].calls = 0
  /\ resolvers[pull.codec] = NoEntry

\* C34: when the load of a lookup completes, an entry that addFormat installed
\* for the codec during the load is still the entry of the codec, and a codec
\* that removeFormat left without an entry during the load is still without
\* one.
C34_LoadKeepsEntry ==
  [][(LoadSettles /\ (AddedDuringLoad \/ RemovedDuringLoad)) =>
       resolvers'[pull.codec] = resolvers[pull.codec]]_vars

\* C34, the diverging case: a resolver without formats and with a loader;
\* resolve in a dag-cbor block called the loader, addFormat(dag-cbor) succeeded
\* before the loader returned, and the registry holds the loaded format
C34_Witness ==
  /\ it.kind = "resolve" /\ pull.pc = "bs.get"
  /\ lastCall.op = "addFormat" /\ lastCall.codec = _codecFromName("dag-cbor")
  /\ lastCall.err = NoErr
  /\ resolvers[_codecFromName("dag-cbor")] = Entry("dag-cbor", "load")
  /\ pull.format = Entry("dag-cbor", "load")

\* C34, the removal: removeFormat(dag-cbor) was the last call on the registry,
\* made while the loader ran, and the registry holds the loaded format
C34_WitnessRemoved ==
  /\ it.kind = "resolve" /\ pull.pc = "bs.get"
  /\ lastCall.op = "removeFormat" /\ lastCall.codec = _codecFromName("dag-cbor")
  /\ loads[_codecFromName("dag-cbor")].calls = 0
  /\ resolvers[_codecFromName("dag-cbor")] = Entry("dag-cbor", "load")

\* a load that fails leaves the registry as addFormat and removeFormat made it
C34_FailedLoadKeepsEntry ==
  [][(/\ LoadSettles
      /\ AddedDuringLoad \/ RemovedDuringLoad
      /\ loadFormatResult(pull.codec).err # NoErr) =>
       resolvers'[pull.codec] = resolvers[pull.codec]]_vars

-----------------------------------------------------------------------------
(* resolve with overlapping pulls (SpecResolveOverlap)                     *)

\* what a settled pull yielded
StepOf(k) ==
  [kind |-> out[k].kind, value |-> out[k].value,
   remainderPath |-> out[k].remainderPath]

\* C35: however the pulls of a resolve overlap, while no pull has failed the
\* k-th step yielded is the k-th step of sequential pulling, and no two steps
\* come from the same hop (the same CID read with the same path).
C35_OverlapSafe ==
  it.kind = "resolve" =>
    /\ \A k \in 1..Len(out) :
         (StepsBefore(k) /\ out[k].kind # "error") => StepOf(k) = ElementK(k)
    /\ \A i, j \in 1..Len(out) :
         (i < j /\ out[i].kind = "value" /\ out[j].kind = "value") =>
           <<out[i].readCid, out[i].usedPath>> # <<out[j].readCid, out[j].usedPath>>

\* C35, the diverging case: resolve(cid3, 'o/d') with a second pull issued
\* before the first settled; both pulls read the block of cid3, the first
\* yielded the link to node 1 and left 'd', the second resolved 'd' in node 3
\* and yielded its someData where sequential pulling yields that of node 1
C35_Witness ==
  /\ it.kind = "resolve" /\ it.argCid = Cbor(3) /\ it.argPath = <<"o", "/", "d">>
  /\ pull.pc = "idle" /\ other.pc = "idle"
  /\ Len(out) = 2
  /\ out[1].kind = "value" /\ out[1].value = CidValue(Cbor(1))
  /\ out[2].kind = "value" /\ out[2].value = StrValue("I am 3")
  /\ out[1].readCid = Cbor(3) /\ out[2].readCid = Cbor(3)
  /\ ElementK(2).value = StrValue("I am 1")

-----------------------------------------------------------------------------
(* The paths of a recursive treeStream (SpecTree)                          *)

\* a child path under a base path; the root has no base path
Joined(base, path) == IF base = <<>> THEN path ELSE base \o <<"/">> \o path

\* the link at path p of the node of c, NoCID when p is no link
LinkAt(c, p) == pluginIsLink(c.codec, bsGet(c), p)

\* the child paths reachable from the node of c, each under its base path, n
\* nodes deep at most
RECURSIVE PathsBelow(_, _, _)
PathsBelow(c, base, n) ==
  IF n = 0 \/ ~bsHas(c) THEN {}
  ELSE LET ps == pluginTree(c.codec, bsGet(c))
       IN UNION { {Joined(base, ps[j])}
                  \cup (IF LinkAt(c, ps[j]) # NoCID
                        THEN PathsBelow(LinkAt(c, ps[j]), Joined(base, ps[j]), n - 1)
                        ELSE {}) : j \in 1..Len(ps) }

\* the nodes fetched when every link below the node of c is expanded once per
\* path: the node itself and the fetches for its link children from the j-th on
RECURSIVE FetchesFrom(_, _, _)
FetchesFrom(c, j, n) ==
  IF n = 0 \/ ~bsHas(c) THEN 0
  ELSE LET ps == pluginTree(c.codec, bsGet(c))
       IN IF j > Len(ps) THEN 0
          ELSE (IF LinkAt(c, ps[j]) # NoCID
                THEN 1 + FetchesFrom(LinkAt(c, ps[j]), 1, n - 1) ELSE 0)
               + FetchesFrom(c, j + 1, n)

\* C36: a recursive treeStream without filter over a store that holds every
\* node below the root: no path is yielded twice, every path yielded is a child
\* path reachable from the root under its accumulated base path, and when the
\* stream has ended (which it does within the reads of the model) every such
\* path, of a link or not, has been yielded, and the nodes fetched are the root
\* and one node for every path that is a link, a node with several paths to it
\* once for each.
C36_RecursiveTree ==
  (it.kind = "tree" /\ it.recursive /\ it.filter = <<>> /\ NoFailure) =>
     /\ \A i, j \in 1..Len(Yielded) : i # j => Yielded[i] # Yielded[j]
     /\ \A i \in 1..Len(Yielded) :
          Yielded[i] \in PathsBelow(it.argCid, <<>>, MaxReads)
     /\ Ended =>
          /\ {Yielded[i] : i \in 1..Len(Yielded)} = PathsBelow(it.argCid, <<>>, MaxReads)
          /\ bsHas(it.argCid) => it.reads = 1 + FetchesFrom(it.argCid, 1, MaxReads)

\* C36, the case: node 3 links to node 1 by `one` and to node 2 by `two`, node
\* 2 links to node 1 by `one`; the stream has ended after seven paths, among
\* them one/someData and two/one/someData of node 1, and four nodes were
\* fetched for three blocks
C36_Witness ==
  /\ it.kind = "tree" /\ it.recursive /\ it.filter = <<>> /\ it.argCid = Cbor(3)
  /\ NoFailure /\ Ended
  /\ Len(Yielded) = 7
  /\ \E i, j \in 1..7 : Yielded[i] = <<"o", "/", "d">>
                        /\ Yielded[j] = <<"t", "/", "o", "/", "d">>
  /\ it.reads = 4

-----------------------------------------------------------------------------
(* Termination of resolve (SpecResolve)                                    *)

\* the steps among the first k outcomes
RECURSIVE StepCount(_)
StepCount(k) ==
  IF k = 0 THEN 0 ELSE (IF out[k].kind = "value" THEN 1 ELSE 0) + StepCount(k - 1)

\* the segments of a path
Segments(path) ==
  IF path = <<>> THEN 0
  ELSE Len(split(IF path[1] = "/" THEN Tail(path) ELSE path))

\* C37: the pulls of a resolve, made one after the other: every step either
\* leaves a path strictly shorter than the path its pull handed to the plugin,
\* or was read from a block that no earlier step was read from; there are no
\* more steps than the path has segments, and one; and the pull after them
\* reports the end or fails, so that the sequence is over within the pulls of
\* the model.
C37_ResolveTerminates ==
  it.kind = "resolve" =>
    /\ \A k \in 1..Len(out) :
         out[k].kind = "value" =>
           \/ Len(out[k].remainderPath) < Len(out[k].usedPath)
           \/ \A j \in 1..(k - 1) : out[j].readCid # out[k].readCid
    /\ StepCount(Len(out)) <= Segments(it.argPath) + 1
    /\ Len(out) > Segments(it.argPath) + 1 =>
         \E k \in 1..Len(out) : out[k].kind \in {"done", "error"}

\* C37, the case: resolve(cid3, 'two/one/someData') read node 3, node 2 and
\* node 1, each step left a shorter path, and the fourth pull reported the end
C37_Witness ==
  /\ it.kind = "resolve" /\ it.argCid = Cbor(3)
  /\ it.argPath = <<"t", "/", "o", "/", "d">>
  /\ Len(out) = 4
  /\ out[1].readCid = Cbor(3) /\ out[2].readCid = Cbor(2) /\ out[3].readCid = Cbor(1)
  /\ out[1].remainderPath = <<"o", "/", "d">> /\ out[2].remainderPath = <<"d">>
  /\ out[3].value = StrValue("I am 1") /\ out[3].remainderPath = <<>>
  /\ out[4].kind = "done"

\* C37, the step that leaves the path as long as it was: the empty path at the
\* block a link led to
C37_WitnessEmptyPath ==
  /\ it.kind = "resolve" /\ Len(out) = 3
  /\ out[1].kind = "value" /\ out[1].value.t = "cid" /\ out[1].remainderPath = <<>>
  /\ out[2].kind = "value" /\ out[2].usedPath = <<>> /\ out[2].remainderPath = <<>>
  /\ out[2].readCid # out[1].readCid
  /\ out[3].kind = "done"

-----------------------------------------------------------------------------
(* What the operations change (SpecFrame)                                  *)

\* the CIDs and the nodes the call was given
GivenCid(c) == \E i \in 1..Len(it.argCids) : it.argCids[i] = c
GivenNode(n) == \E i \in 1..Len(it.argNodes) : it.argNodes[i] = n

\* the step writes one block of a node the put was given, in the place of what
\* the store held under its CID
WritesGivenNode ==
  \E b \in store' :
    /\ GivenNode(b.obj)
    /\ store' = {x \in store : x.cid # b.cid} \cup {b}

\* the step deletes blocks of CIDs the remove was given and nothing else
DeletesGiven ==
  /\ store' \subseteq store
  /\ \A b \in store \ store' : GivenCid(b.cid)

\* the step caches the format the loader returned for a lookup that missed
CachesOnMiss ==
  /\ pull.pc = "loading" /\ pull.lookedUp
  /\ resolvers[pull.codec] = NoEntry
  /\ loadFormatResult(pull.codec).err = NoErr
  /\ resolvers' = [resolvers EXCEPT ![pull.codec] = loadFormatResult(pull.codec).format]

\* C38: no step of a resolve, a get or a treeStream, and no call of any of the
\* five operations, changes the store; a step of a put that changes it writes a
\* block of a node the put was given; a step of a remove that changes it
\* deletes blocks of CIDs the remove was given; and a step of any of them that
\* changes the registry caches the loaded format of a lookup that missed.
C38_Frame ==
  [][/\ store' # store =>
          /\ it.kind \in {"put", "remove"} /\ it'.kind = it.kind
          /\ it.kind = "put" => WritesGivenNode
          /\ it.kind = "remove" => DeletesGiven
     /\ resolvers' # resolvers => CachesOnMiss
     /\ loadFormat' = loadFormat
    ]_vars

\* C38, the case: a recursive treeStream on a resolver without formats has
\* ended; nothing was written or deleted, the store is the one of the start and
\* the registry holds the loaded dag-cbor and nothing else
C38_Witness ==
  /\ it.kind = "tree" /\ it.recursive /\ Ended /\ Len(Yielded) = 7
  /\ putLog = {} /\ store = AllBlocks
  /\ resolvers = [c \in Codecs |->
                    IF c = _codecFromName("dag-cbor")
                    THEN Entry("dag-cbor", "load") ELSE NoEntry]

\* C38, the writers: remove([cid1]) on the full store has deleted the block
\* of node 1 and no other
C38_WitnessWriters ==
  /\ it.kind = "remove" /\ it.argCids = <<Cbor(1)>>
  /\ Len(out) = 1 /\ out[1].kind = "value"
  /\ store = AllBlocks \ {BlockOf(1, "dag-cbor")}
  /\ putLog = {<<Cbor(1), 0>>}

====
